---------------------------- MODULE Spec2Model ----------------------------
(***************************************************************************)
(* beatport-continuity: the Durability Engine (src/bpc/compute.py), the    *)
(* classifier and the cross-chart aggregator (src/bpc/report.py), and the  *)
(* extractor (src/bpc/fetch.py), and the ingestion and compute runs over   *)
(* the store (src/bpc/ingest.py, src/bpc/db.py, src/bpc/compute.py).       *)
(*                                                                         *)
(* Number representation.  The program computes with Python floats; the    *)
(* model computes with integers:                                           *)
(*   - a quotient of integers (avg_rank, presence_ratio, momentum_4w) is   *)
(*     the exact rational [num, den], den > 0;                             *)
(*   - a population standard deviation is kept as its square, the exact    *)
(*     rational [num, den]: the program only compares standard deviations  *)
(*     with non-negative thresholds, and x <= c iff x^2 <= c^2 there;      *)
(*   - a score in [0,1] is a fixed-point number of Scale-ths, rounded      *)
(*     down; ln(1+n) is tabulated in Scale-ths;                            *)
(*   - None is the empty tuple and a present optional value x is <<x>>.    *)
(***************************************************************************)
EXTENDS Integers, Sequences, FiniteSets, TLC

VARIABLES
    weeks,        \* the chart's distinct snapshot week dates, ascending
    raw_entries,  \* the item's stored entries (week, rank), by snapshot date
    row,          \* durability_metrics row of (chart, item, as-of week) or None
    rec,          \* a metric record handed to bucket_row
    label,        \* bucket_row's result for rec, or None
    rows,         \* the per-chart rows handed to _aggregate_across_charts
    board,        \* the aggregator's result, or None
    html,         \* a page payload handed to parse_chart
    parsed,       \* what parse_chart ended with for html, or None
    db_charts,            \* table charts: the chart ids
    chart_snapshots,      \* table chart_snapshots: rows id, chart_id, snapshot_date
    chart_entries,        \* table chart_entries: rows snapshot_id, track_id, rank
    durability_metrics,   \* table durability_metrics: the metric rows
    job,          \* the run_ingestion or run_compute call under way, or None
    processed,    \* the charts the current or last run is done with, in order
    runs          \* the number of runs started

vars == <<weeks, raw_entries, row, rec, label, rows, board, html, parsed,
          db_charts, chart_snapshots, chart_entries, durability_metrics,
          job, processed, runs>>

\* the variables of the extractor
parseVars == <<html, parsed>>

\* the tables of the store
storeVars == <<db_charts, chart_snapshots, chart_entries, durability_metrics>>

\* the variables of a run over the charts
runVars == <<job, processed, runs>>

---------------------------------------------------------------------------
\* Bounds of the model.

\* most snapshot weeks of the chart
MaxWeeks == 6

\* most rows handed to the aggregator
MaxRows == 6

\* fixed-point unit: a score s is the integer floor(s * Scale)
Scale == 10^4

\* rank of an item's first stored entry
EntryRanks == {1, 50, 400}

\* week-over-week rank changes of an item that stays on the chart
RankMoves == {-10, -5, 0, 25}

---------------------------------------------------------------------------
\* Optional values and rationals.

None == <<>>

Some(x) == <<x>>

\* an empty store and no run
IdleStore ==
    /\ db_charts = {}
    /\ chart_snapshots = {}
    /\ chart_entries = {}
    /\ durability_metrics = {}
    /\ job = <<>>
    /\ processed = <<>>
    /\ runs = 0

Rat(n, d) == [num |-> n, den |-> d]

RatEq(a, b) == a.num * b.den = b.num * a.den

\* floor(q * Scale) of a rational q >= 0
ToFixed(q) == (q.num * Scale) \div q.den

RECURSIVE SumSeq(_)
SumSeq(s) == IF s = <<>> THEN 0 ELSE s[1] + SumSeq(Tail(s))

RECURSIVE MinSeq(_)
MinSeq(s) ==
    IF Len(s) = 1 THEN s[1]
    ELSE LET m == MinSeq(Tail(s)) IN IF s[1] <= m THEN s[1] ELSE m

\* the last k elements of s (Python s[-k:])
LastN(s, k) == IF Len(s) <= k THEN s ELSE SubSeq(s, Len(s) - k + 1, Len(s))

\* Python sorted(entries, key=lambda e: e.idx): a stable insertion sort
RECURSIVE InsertByIdx(_, _)
InsertByIdx(e, s) ==
    IF s = <<>> THEN <<e>>
    ELSE IF e.idx < s[1].idx THEN <<e>> \o s
    ELSE <<s[1]>> \o InsertByIdx(e, Tail(s))

RECURSIVE SortedByIdx(_)
SortedByIdx(s) ==
    IF s = <<>> THEN <<>>
    ELSE InsertByIdx(s[Len(s)], SortedByIdx(SubSeq(s, 1, Len(s) - 1)))

---------------------------------------------------------------------------
\* compute.py

\* _pop_stddev(values), kept as its square (the population variance): with
\* mean = s/n, sum((v - mean)^2)/n = sum((n*v - s)^2) / n^3
_pop_stddev(values) ==
    LET n == Len(values)
        s == SumSeq(values)
    IN  IF n <= 1 THEN Rat(0, 1)
        ELSE Rat(SumSeq([i \in 1..n |-> (n * values[i] - s) * (n * values[i] - s)]),
                 n * n * n)

\* _clamp01 without its lower bound
_clamp01_NoFloor(x) == IF x > Scale THEN Scale ELSE x

_clamp01(x) == IF x < 0 THEN 0 ELSE IF x > Scale THEN Scale ELSE x

\* math.log1p(n) in Scale-ths, n a week count
Log1p(n) ==
    IF n = 0 THEN 0
    ELSE <<6931, 10986, 13863, 16094, 17918, 19459, 20794,
           21972, 23026, 23979, 24849, 25649>>[n]

\* the loop of _compute_segments with `current` never reset at a gap
RECURSIVE SegLoop_NoReset(_, _, _, _, _, _)
SegLoop_NoReset(idxs, i, segments, current, max_streak, last_streak) ==
    IF i > Len(idxs) THEN <<segments, max_streak, last_streak>>
    ELSE LET contiguous == idxs[i] = idxs[i - 1] + 1
             seg == IF contiguous THEN segments ELSE segments + 1
             cur == current + 1
             mx  == IF cur > max_streak THEN cur ELSE max_streak
         IN  SegLoop_NoReset(idxs, i + 1, seg, cur, mx, cur)

\* the loop of _compute_segments over zip(idxs, idxs[1:]), from position i
RECURSIVE SegLoop(_, _, _, _, _, _)
SegLoop(idxs, i, segments, current, max_streak, last_streak) ==
    IF i > Len(idxs) THEN <<segments, max_streak, last_streak>>
    ELSE LET contiguous == idxs[i] = idxs[i - 1] + 1
             seg == IF contiguous THEN segments ELSE segments + 1
             cur == IF contiguous THEN current + 1 ELSE 1
             mx  == IF cur > max_streak THEN cur ELSE max_streak
         IN  SegLoop(idxs, i + 1, seg, cur, mx, cur)

\* <<segments_count, max_streak_weeks, last_streak_weeks>>
_compute_segments(idxs) ==
    IF idxs = <<>> THEN <<0, 0, 0>> ELSE SegLoop(idxs, 2, 1, 1, 1, 1)

\* MotionApplies without the as-of week test
MotionApplies_AnyLastWeek(entries, as_of_week) == entries # <<>>

\* the early returns of _compute_motion_window: motion is computed only when
\* the item's last entry is in the as-of week

MotionApplies(entries, as_of_week) ==
    /\ entries # <<>>
    /\ entries[Len(entries)].week = as_of_week

\* a window one observation short
MotionWindow_Three(entries) == LastN(entries, 3)

\* window = entries[-4:]

MotionWindow(entries) == LastN(entries, 4)

\* [last_rank, prev_rank, wow_delta, momentum_4w, volatility_4w]
_compute_motion_window(entries, as_of_week) ==
    IF ~MotionApplies(entries, as_of_week)
    THEN [last_rank |-> None, prev_rank |-> None, wow_delta |-> None,
          momentum_4w |-> None, volatility_4w |-> None]
    ELSE LET n == Len(entries)
             last_rank == entries[n].rank
             prev_rank == IF n >= 2 THEN Some(entries[n - 1].rank) ELSE None
             wow_delta == IF prev_rank # None
                          THEN Some(prev_rank[1] - last_rank) ELSE None
             window == MotionWindow(entries)
             ranks  == [i \in 1..Len(window) |-> window[i].rank]
             k      == Len(ranks)
             deltas == [i \in 1..(k - 1) |-> window[i].rank - window[i + 1].rank]
         IN  [last_rank |-> Some(last_rank),
              prev_rank |-> prev_rank,
              wow_delta |-> wow_delta,
              momentum_4w |->
                  IF k >= 2 THEN Some(Rat(ranks[1] - ranks[k], k - 1)) ELSE None,
              volatility_4w |->
                  IF k >= 3
                  THEN Some(IF Len(deltas) >= 2 THEN _pop_stddev(deltas) ELSE Rat(0, 1))
                  ELSE None]

\* age_weeks off by one
AgeWeeks_NoPlusOne(as_of_idx, first_idx) == as_of_idx - first_idx

\* age_weeks = (as_of_idx - first_idx) + 1

AgeWeeks(as_of_idx, first_idx) == (as_of_idx - first_idx) + 1

\* current_streak_weeks without the as-of week test
CurrentStreak_Always(last_streak_weeks, last_seen_week, as_of_week) ==
    last_streak_weeks

\* current_streak_weeks = last_streak_weeks if last_seen_week == as_of_week else 0

CurrentStreak(last_streak_weeks, last_seen_week, as_of_week) ==
    IF last_seen_week = as_of_week THEN last_streak_weeks ELSE 0

\* the week of the first entry whose rank is best_rank
RECURSIVE FirstWeekOfRank(_, _)
FirstWeekOfRank(entries, r) ==
    IF entries[1].rank = r THEN entries[1].week
    ELSE FirstWeekOfRank(Tail(entries), r)

\* the composite score of _build_metric_row, in Scale-ths
DurabilityScore(avg_rank, weeks_on_chart, max_streak_weeks, presence_ratio, reentry_count, max_weeks_observed) ==
    LET rank_quality_norm ==
            _clamp01(Scale - ((avg_rank.num - avg_rank.den) * Scale)
                                 \div (99 * avg_rank.den))
        longevity_norm ==
            IF max_weeks_observed > 0
            THEN (Log1p(weeks_on_chart) * Scale) \div Log1p(max_weeks_observed)
            ELSE 0
        streak_norm ==
            IF max_weeks_observed > 0
            THEN (max_streak_weeks * Scale) \div max_weeks_observed
            ELSE 0
        presence_norm == ToFixed(presence_ratio)
        churn_norm == Scale \div (1 + reentry_count)
    IN  (35 * rank_quality_norm + 25 * longevity_norm + 20 * streak_norm
         + 10 * presence_norm + 10 * churn_norm) \div 100

_build_metric_row(track_id, entries, as_of_week, as_of_idx, max_weeks_observed) ==
    LET entries_sorted == SortedByIdx(entries)
        n == Len(entries_sorted)
        idxs == [i \in 1..n |-> entries_sorted[i].idx]
        weeks_on_chart == n
        first_seen_week == entries_sorted[1].week
        last_seen_week == entries_sorted[n].week
        first_idx == idxs[1]
        age_weeks == AgeWeeks(as_of_idx, first_idx)
        presence_ratio == IF age_weeks > 0 THEN Rat(weeks_on_chart, age_weeks)
                          ELSE Rat(0, 1)
        seg == _compute_segments(idxs)
        segments_count == seg[1]
        max_streak_weeks == seg[2]
        last_streak_weeks == seg[3]
        reentry_count == IF segments_count - 1 > 0 THEN segments_count - 1 ELSE 0
        ranks == [i \in 1..n |-> entries_sorted[i].rank]
        best_rank == MinSeq(ranks)
        avg_rank == Rat(SumSeq(ranks), weeks_on_chart)
        motion == _compute_motion_window(entries_sorted, as_of_week)
    IN  [track_id |-> track_id,
         as_of_week |-> as_of_week,
         weeks_on_chart |-> weeks_on_chart,
         first_seen_week |-> first_seen_week,
         last_seen_week |-> last_seen_week,
         age_weeks |-> age_weeks,
         presence_ratio |-> presence_ratio,
         current_streak_weeks |->
             CurrentStreak(last_streak_weeks, last_seen_week, as_of_week),
         max_streak_weeks |-> max_streak_weeks,
         reentry_count |-> reentry_count,
         segments_count |-> segments_count,
         best_rank |-> best_rank,
         best_rank_week |-> FirstWeekOfRank(entries_sorted, best_rank),
         avg_rank |-> avg_rank,
         rank_stddev |-> _pop_stddev(ranks),
         top10_weeks |-> Cardinality({i \in 1..n : ranks[i] <= 10}),
         top25_weeks |-> Cardinality({i \in 1..n : ranks[i] <= 25}),
         last_rank |-> motion.last_rank,
         prev_rank |-> motion.prev_rank,
         wow_delta |-> motion.wow_delta,
         momentum_4w |-> motion.momentum_4w,
         volatility_4w |-> motion.volatility_4w,
         durability_score |->
             DurabilityScore(avg_rank, weeks_on_chart, max_streak_weeks,
                             presence_ratio, reentry_count, max_weeks_observed)]

---------------------------------------------------------------------------
\* report.py: the classifier

\* thresholds, scores in Scale-ths
DUR_HIGH == (70 * Scale) \div 100

STREAK_LONG == 4

AGE_SHORT == 3

AGE_LONG == 8

VOL_LOW == 1

VOL_HIGH == 4

STDDEV_HIGH == 20

PEAK_STRONG == 15

MOM_POS == 2

WOW_FALL == -3

NoLabel == "-"

\* a standard deviation kept as its square v, compared with a threshold c >= 0
StdLe(v, c) == v.num <= c * c * v.den

StdGe(v, c) == v.num >= c * c * v.den

\* the Anchor rule with a strict durability threshold
AnchorRule_Exclusive(r) ==
    /\ r.durability_score > DUR_HIGH
    /\ r.max_streak_weeks >= STREAK_LONG
    /\ \/ (r.volatility_4w # None /\ StdLe(r.volatility_4w[1], VOL_LOW))
       \/ (r.rank_stddev # None /\ StdLe(r.rank_stddev[1], 10))

\* the conditions of the four label rules
AnchorRule(r) ==
    /\ r.durability_score >= DUR_HIGH
    /\ r.max_streak_weeks >= STREAK_LONG
    /\ \/ (r.volatility_4w # None /\ StdLe(r.volatility_4w[1], VOL_LOW))
       \/ (r.rank_stddev # None /\ StdLe(r.rank_stddev[1], 10))

SpikeRule(r) ==
    /\ r.weeks_on_chart <= 2
    /\ r.best_rank <= PEAK_STRONG
    /\ \/ (r.volatility_4w # None /\ StdGe(r.volatility_4w[1], VOL_HIGH))
       \/ (r.rank_stddev # None /\ StdGe(r.rank_stddev[1], STDDEV_HIGH))

ClimberRule(r) ==
    /\ r.age_weeks # None
    /\ r.age_weeks[1] <= AGE_SHORT
    /\ \/ (r.momentum_4w # None
           /\ r.momentum_4w[1].num >= MOM_POS * r.momentum_4w[1].den)
       \/ (r.wow_delta # None /\ r.wow_delta[1] >= 3)
    /\ r.last_rank # None

FaderRule(r) ==
    /\ r.weeks_on_chart >= AGE_LONG
    /\ \/ (r.wow_delta # None /\ r.wow_delta[1] <= WOW_FALL)
       \/ (r.momentum_4w # None /\ r.momentum_4w[1].num < 0)

\* bucket_row with the Fader rule tried first
bucket_row_FaderFirst(r) ==
    IF FaderRule(r) THEN "Fader"
    ELSE IF AnchorRule(r) THEN "Anchor"
    ELSE IF SpikeRule(r) THEN "Spike"
    ELSE IF ClimberRule(r) THEN "Climber"
    ELSE NoLabel

\* first match wins: Anchor, Spike, Climber, Fader, else no label
bucket_row(r) ==
    IF AnchorRule(r) THEN "Anchor"
    ELSE IF SpikeRule(r) THEN "Spike"
    ELSE IF ClimberRule(r) THEN "Climber"
    ELSE IF FaderRule(r) THEN "Fader"
    ELSE NoLabel

---------------------------------------------------------------------------
\* report.py: the cross-chart aggregator

\* scores and multipliers in Scale-ths
AGGREGATE_STEP == (15 * Scale) \div 100

AGGREGATE_MAX_BOOST == (60 * Scale) \div 100

\* list.sort(key=lambda x: x[field], reverse=True): stable, descending
RECURSIVE InsertDesc(_, _, _)
InsertDesc(e, s, field) ==
    IF s = <<>> THEN <<e>>
    ELSE IF s[1][field] >= e[field] THEN <<s[1]>> \o InsertDesc(e, Tail(s), field)
    ELSE <<e>> \o s

RECURSIVE SortDesc(_, _)
SortDesc(s, field) ==
    IF s = <<>> THEN <<>>
    ELSE InsertDesc(s[Len(s)], SortDesc(SubSeq(s, 1, Len(s) - 1), field), field)

\* the keys of the dict `tracks`, in insertion order: first appearance in rows
RECURSIVE TrackOrder(_)
TrackOrder(rs) ==
    IF rs = <<>> THEN <<>>
    ELSE LET before == TrackOrder(SubSeq(rs, 1, Len(rs) - 1))
             t == rs[Len(rs)].track_id
         IN  IF \E i \in 1..Len(before) : before[i] = t THEN before
             ELSE Append(before, t)

\* chart_entry of one row, with the classifier's label of its per-chart stats
ChartEntry(r) ==
    [chart_id |-> r.chart_id,
     chart_type |-> r.chart_type,
     durability_score |-> r.durability_score,
     last_rank |-> r.last_rank,
     best_rank |-> r.best_rank,
     bucket |-> bucket_row(r)]

\* track["charts"] after the first loop: the track's chart entries, in row order
ChartsOf(rs, t) ==
    LET OfTrack(r) == r.track_id = t
        mine == SelectSeq(rs, OfTrack)
    IN  [i \in 1..Len(mine) |-> ChartEntry(mine[i])]

\* the multiplier without its cap
Multiplier_NoCap(chart_count) == Scale + AGGREGATE_STEP * (chart_count - 1)

\* multiplier = min(1 + AGGREGATE_STEP * (chart_count - 1), 1 + AGGREGATE_MAX_BOOST)
Multiplier(chart_count) ==
    LET m == Scale + AGGREGATE_STEP * (chart_count - 1)
    IN  IF m <= Scale + AGGREGATE_MAX_BOOST THEN m ELSE Scale + AGGREGATE_MAX_BOOST

\* the label of the last of the charts sorted by score
PrimaryBucket_Last(charts) ==
    SortDesc(charts, "durability_score")[Len(charts)].bucket

\* sorted(track["charts"], key=durability_score, reverse=True)[0]["bucket"]
PrimaryBucket(charts) == SortDesc(charts, "durability_score")[1].bucket

\* the second loop's work on one track
TrackAggregate(rs, t) ==
    LET charts == SortDesc(ChartsOf(rs, t), "durability_score")
        chart_count == Len(charts)
        durabilities == [i \in 1..chart_count |-> charts[i].durability_score]
        avg_durability == IF chart_count # 0 THEN SumSeq(durabilities) \div chart_count
                          ELSE 0
        multiplier == Multiplier(chart_count)
    IN  [track_id |-> t,
         charts |-> charts,
         chart_count |-> chart_count,
         top_chart_count |->
             Cardinality({i \in 1..chart_count : charts[i].chart_type = "top100"}),
         hype_chart_count |->
             Cardinality({i \in 1..chart_count : charts[i].chart_type = "hype"}),
         avg_durability |-> avg_durability,
         max_durability |-> IF chart_count # 0 THEN charts[1].durability_score ELSE 0,
         aggregate_multiplier |-> multiplier,
         aggregate_score |-> (avg_durability * multiplier) \div Scale,
         bucket |-> PrimaryBucket(charts)]

\* a filter that lets single-chart items through
Eligible_Any(track) == track.chart_count >= 1

\* the leaderboard filter: chart_count >= 2
Eligible(track) == track.chart_count >= 2

_aggregate_across_charts(rs) ==
    LET order == TrackOrder(rs)
        tracks == [i \in 1..Len(order) |-> TrackAggregate(rs, order[i])]
    IN  SortDesc(SelectSeq(tracks, Eligible), "aggregate_score")

---------------------------------------------------------------------------
\* fetch.py: the extractor.  A page payload is a record of what the parsers
\* read from the html text:
\*   hype_true  the text contains the literal "hype=true"
\*   next_data  None when the __NEXT_DATA__ script is missing, empty, not JSON
\*              or a falsy JSON value; else Some of
\*                is_object  the JSON value and its "props" are objects
\*                queries    per dehydrated query, the is_included_in_hype
\*                           value of its state.data, None when the key is absent
\*                lists      the arrays of the tree in pre-order, each with
\*                           in_page (it lies under pageProps) and its items
\*   dom        the elements of the document in order, each with
\*                ec    None, or Some of the data-ec-position text: Some(n)
\*                      when it is the integer n, None when it is no integer
\*                a     None, or Some of the numeric id in the href of the
\*                      element's first track link, 0 when TRACK_ID_RE fails
\*                main  the link lies inside <main>
\* An item of an array has like (a dict that _is_track_like_dict accepts), id
\* (its "id", 0 for the empty string) and href (None, or Some of the numeric id
\* in the resolved link, 0 when TRACK_ID_RE does not match it).

DEFAULT_LIMIT == 100

\* the thresholds of _parse_chart_from_next_data_order
MIN_LIST_LEN == 20

SCORE_WINDOW == 250

MIN_TRACKISH == 20

GOOD_ENOUGH == 50

\* _find_next_data_json(soup)
_find_next_data_json(h) == h.next_data

\* _walk_lists(root) for root = page_props (page_only) or next_data
_walk_lists(nd, page_only) ==
    LET UnderPage(l) == l.in_page
    IN  IF page_only THEN SelectSeq(nd.lists, UnderPage) ELSE nd.lists

_is_track_like_dict(d) == d.like

_extract_track_href_from_track_obj(d) == d.href

\* the flag of the last query that carries one
RECURSIVE _check_genre_supports_hype_Last(_)
_check_genre_supports_hype_Last(queries) ==
    IF queries = <<>> THEN None
    ELSE IF queries[Len(queries)] # None THEN queries[Len(queries)]
    ELSE _check_genre_supports_hype_Last(SubSeq(queries, 1, Len(queries) - 1))

\* _check_genre_supports_hype: the flag of the first query whose data has the
\* key; None when no query has it
RECURSIVE _check_genre_supports_hype(_)
_check_genre_supports_hype(queries) ==
    IF queries = <<>> THEN None
    ELSE IF queries[1] # None THEN queries[1]
    ELSE _check_genre_supports_hype(Tail(queries))

\* trackish: the track-like items among the first SCORE_WINDOW of lst
Trackish(lst) ==
    LET n == IF Len(lst) <= SCORE_WINDOW THEN Len(lst) ELSE SCORE_WINDOW
    IN  Cardinality({i \in 1..n : _is_track_like_dict(lst[i])})

\* length and density alone
Candidate_NoMinimum(lst) ==
    /\ Len(lst) >= MIN_LIST_LEN
    /\ 2 * Trackish(lst) >= Len(lst)

\* the checks a list passes before it competes: length, count, density >= 0.50
Candidate(lst) ==
    /\ Len(lst) >= MIN_LIST_LEN
    /\ Trackish(lst) >= MIN_TRACKISH
    /\ 2 * Trackish(lst) >= Len(lst)

\* the inner loop over the lists of one root; best = [list, score, len]
RECURSIVE ScanLists(_, _)
ScanLists(lsts, best) ==
    IF lsts = <<>> THEN best
    ELSE LET lst == lsts[1].items
             trackish == Trackish(lst)
             better == \/ trackish > best.score
                       \/ (trackish = best.score /\ Len(lst) > best.len)
         IN  ScanLists(Tail(lsts),
                       IF Candidate(lst) /\ better
                       THEN [list |-> lst, score |-> trackish, len |-> Len(lst)]
                       ELSE best)

\* a scan of every list of the payload
BestList_ScanAll(nd) ==
    ScanLists(_walk_lists(nd, FALSE), [list |-> <<>>, score |-> 0, len |-> 0]).list

\* the loop over search_roots = [page_props, next_data], left once a root is
\* done and best_score >= 50
BestList(nd) ==
    LET start == [list |-> <<>>, score |-> 0, len |-> 0]
        after_page == ScanLists(_walk_lists(nd, TRUE), start)
    IN  IF after_page.score >= GOOD_ENOUGH THEN after_page.list
        ELSE ScanLists(_walk_lists(nd, FALSE), after_page).list

\* track_id of an item with a link: from the link, else str(item["id"])
TrackIdOf(item) == IF item.href[1] # 0 THEN item.href[1] ELSE item.id

\* a rank taken from the position in the array
EntryRank_ArrayIndex(out, i) == i

\* "rank": len(out) + 1
EntryRank(out, i) == Len(out) + 1

\* one pass of the emit loop's body, for item i of best_list
EmitStep(lst, i, out, limit) ==
    LET item == lst[i]
        skip == \/ ~_is_track_like_dict(item)
                \/ _extract_track_href_from_track_obj(item) = None
                \/ TrackIdOf(item) = 0
                \/ \E k \in 1..Len(out) : out[k].track_id = TrackIdOf(item)
    IN  IF skip THEN out
        ELSE Append(out, [track_id |-> TrackIdOf(item), rank |-> EntryRank(out, i)])

\* the emit loop over items lo..hi of best_list, in order and until
\* len(out) >= limit: the first half, then the second half on what the first
\* half put out
RECURSIVE EmitLoop(_, _, _, _, _)
EmitLoop(lst, lo, hi, out, limit) ==
    IF lo > hi \/ Len(out) >= limit THEN out
    ELSE IF lo = hi THEN EmitStep(lst, lo, out, limit)
    ELSE LET mid == (lo + hi) \div 2
             half == EmitLoop(lst, lo, mid, out, limit)
         IN  EmitLoop(lst, mid + 1, hi, half, limit)

\* _parse_chart_from_next_data_order(html, limit), next_data an object
_parse_chart_from_next_data_order(h, limit) ==
    IF _find_next_data_json(h) = None THEN <<>>
    ELSE LET best_list == BestList(_find_next_data_json(h)[1])
         IN  EmitLoop(best_list, 1, Len(best_list), <<>>, limit)

\* entries.sort(key=lambda e: e["rank"]): stable, ascending
RECURSIVE InsertByRank(_, _)
InsertByRank(e, s) ==
    IF s = <<>> THEN <<e>>
    ELSE IF s[1].rank <= e.rank THEN <<s[1]>> \o InsertByRank(e, Tail(s))
    ELSE <<e>> \o s

RECURSIVE SortByRank(_)
SortByRank(s) ==
    IF s = <<>> THEN <<>>
    ELSE InsertByRank(s[Len(s)], SortByRank(SubSeq(s, 1, Len(s) - 1)))

\* _parse_chart_from_analytics_dom(soup)
_parse_chart_from_analytics_dom(dom) ==
    LET Usable(e) == /\ e.ec # None
                     /\ e.a # None
                     /\ e.a[1] # 0
                     /\ e.ec[1] # None
        nodes == SelectSeq(dom, Usable)
    IN  SortByRank([i \in 1..Len(nodes) |->
                       [track_id |-> nodes[i].a[1], rank |-> nodes[i].ec[1][1]]])

\* the loop of _parse_chart_from_dom_order over the anchors
RECURSIVE DomLoop(_, _, _, _)
DomLoop(anchors, i, out, limit) ==
    IF i > Len(anchors) \/ Len(out) >= limit THEN out
    ELSE LET id == anchors[i].a[1]
             skip == \/ id = 0
                     \/ \E k \in 1..Len(out) : out[k].track_id = id
         IN  IF skip THEN DomLoop(anchors, i + 1, out, limit)
             ELSE DomLoop(anchors, i + 1,
                          Append(out, [track_id |-> id, rank |-> Len(out) + 1]),
                          limit)

\* _parse_chart_from_dom_order(soup, limit)
_parse_chart_from_dom_order(dom, limit) ==
    LET InMain(e) == e.a # None /\ e.main
        Linked(e) == e.a # None
        anchors == IF SelectSeq(dom, InMain) # <<>> THEN SelectSeq(dom, InMain)
                   ELSE SelectSeq(dom, Linked)
    IN  DomLoop(anchors, 1, <<>>, limit)

\* what a call of parse_chart ends with
Return(entries) == [outcome |-> "return", entries |-> entries]

Raise(error) == [outcome |-> error, entries |-> <<>>]

\* the early return of parse_chart: a hype request whose genre does not
\* support hype
UnsupportedHype(h) ==
    /\ h.hype_true
    /\ _find_next_data_json(h) # None
    /\ _find_next_data_json(h)[1].is_object
    /\ _check_genre_supports_hype(_find_next_data_json(h)[1].queries) = Some(FALSE)

\* parse_chart(html); next_data.get raises AttributeError when next_data, or
\* its "props", is not an object
parse_chart(h) ==
    IF UnsupportedHype(h) THEN Return(<<>>)
    ELSE IF _find_next_data_json(h) # None /\ ~_find_next_data_json(h)[1].is_object
    THEN Raise("AttributeError")
    ELSE IF _parse_chart_from_next_data_order(h, DEFAULT_LIMIT) # <<>>
    THEN Return(_parse_chart_from_next_data_order(h, DEFAULT_LIMIT))
    ELSE IF _parse_chart_from_analytics_dom(h.dom) # <<>>
    THEN Return(_parse_chart_from_analytics_dom(h.dom))
    ELSE IF _parse_chart_from_dom_order(h.dom, DEFAULT_LIMIT) # <<>>
    THEN Return(_parse_chart_from_dom_order(h.dom, DEFAULT_LIMIT))
    ELSE Raise("ValueError")

---------------------------------------------------------------------------
\* The store as the History Reader sees it, for one chart and one item.

\* week dates are day numbers; snapshots fall on consecutive Mondays
NextWeekDate == IF weeks = <<>> THEN 0 ELSE weeks[Len(weeks)] + 7

\* the ranks the item can take in a new snapshot
NextRanks ==
    IF raw_entries = <<>> THEN EntryRanks
    ELSE {r \in {raw_entries[Len(raw_entries)].rank + m : m \in RankMoves} : r >= 1}

\* A snapshot of the chart for the next week is stored; the item is on it at
\* rank r, or absent (r = 0).  The as-of week moves on, so the (chart, item,
\* as-of week) metric row does not exist yet.
ObserveWeek(r) ==
    /\ Len(weeks) < MaxWeeks
    /\ weeks' = Append(weeks, NextWeekDate)
    /\ raw_entries' = IF r = 0 THEN raw_entries
                      ELSE Append(raw_entries, [week |-> NextWeekDate, rank |-> r])
    /\ row' = None
    /\ UNCHANGED <<rec, label, rows, board, parseVars, storeVars, runVars>>

\* week_index = {w: i for i, w in enumerate(weeks)}
WeekIndex_Calendar(ws, w) == (w - ws[1]) \div 7

\* week_index[w] of {w: i for i, w in enumerate(weeks)}
WeekIndex(ws, w) == CHOOSE i \in 0..(Len(ws) - 1) : ws[i + 1] = w

\* run_compute for the chart: the item's entries become TrackWeek records and
\* its metric row for the chart's as-of week is replaced.
RunCompute ==
    /\ weeks # <<>>
    /\ raw_entries # <<>>
    /\ LET chart_as_of_week == weeks[Len(weeks)]
           max_weeks_observed == Len(weeks)
           as_of_idx == WeekIndex(weeks, chart_as_of_week)
           tws == [i \in 1..Len(raw_entries) |->
                      [idx  |-> WeekIndex(weeks, raw_entries[i].week),
                       week |-> raw_entries[i].week,
                       rank |-> raw_entries[i].rank]]
       IN  row' = Some(_build_metric_row("t1", tws, chart_as_of_week, as_of_idx,
                                         max_weeks_observed))
    /\ UNCHANGED <<weeks, raw_entries, rec, label, rows, board, parseVars, storeVars, runVars>>

Init ==
    /\ weeks = <<>>
    /\ raw_entries = <<>>
    /\ row = None
    /\ rec = None
    /\ label = None
    /\ rows = <<>>
    /\ board = None
    /\ html = None
    /\ parsed = None
    /\ IdleStore

Next ==
    \/ \E r \in NextRanks \cup {0} : ObserveWeek(r)
    \/ RunCompute

Spec == Init /\ [][Next]_vars

---------------------------------------------------------------------------
\* The item's history read off the store, independently of compute.py.

\* N, the chart's number of distinct snapshot weeks
NWeeks == Len(weeks)

\* the observation indices of the item: positions of its weeks among the chart's
ObsIdx == {i \in 0..(NWeeks - 1) :
              \E k \in 1..Len(raw_entries) : raw_entries[k].week = weeks[i + 1]}

\* the item's rank at observation index i
RankAt(i) ==
    raw_entries[CHOOSE k \in 1..Len(raw_entries) : raw_entries[k].week = weeks[i + 1]].rank

\* the first indices of the maximal runs of consecutive indices
RunStarts == {i \in ObsIdx : (i - 1) \notin ObsIdx}

\* the length of the run of consecutive indices that starts at i
RunLenFrom(i) ==
    CHOOSE n \in 1..NWeeks :
        /\ \A j \in i..(i + n - 1) : j \in ObsIdx
        /\ (i + n) \notin ObsIdx

MaxOf(S) == CHOOSE x \in S : \A y \in S : y <= x

MinOf(S) == CHOOSE x \in S : \A y \in S : x <= y

LongestRun == MaxOf({RunLenFrom(i) : i \in RunStarts})

FinalRun == RunLenFrom(MaxOf(RunStarts))

\* the item is on the chart's as-of (latest) snapshot
SeenAsOf == (NWeeks - 1) \in ObsIdx

\* the ranks of the item's last (up to) n observations, oldest first
RECURSIVE RanksOf(_)
RanksOf(S) == IF S = {} THEN <<>>
              ELSE RanksOf(S \ {MaxOf(S)}) \o <<RankAt(MaxOf(S))>>

RECURSIVE LargestN(_, _)
LargestN(S, n) == IF n = 0 \/ S = {} THEN {}
                  ELSE {MaxOf(S)} \cup LargestN(S \ {MaxOf(S)}, n - 1)

TrailingRanks(n) == RanksOf(LargestN(ObsIdx, n))

HasRow == row # None

TheRow == row[1]

---------------------------------------------------------------------------
\* Properties of the Durability Engine (specification Spec).

\* C1: every metric row run_compute builds has durability_score in [0, 1],
\* whatever the ranks (ranks above 100 included).
C1_ScoreInUnitInterval ==
    HasRow => (0 <= TheRow.durability_score /\ TheRow.durability_score <= Scale)

\* a row of an item that re-entered the chart and whose ranks are all above 100
C1_Witness ==
    /\ HasRow
    /\ TheRow.best_rank > 100
    /\ TheRow.reentry_count >= 1
    /\ TheRow.durability_score > 0

\* C2: for observation indices that form k maximal runs of consecutive
\* integers, segments_count = k, reentry_count = k - 1, max_streak_weeks is the
\* longest run and the last streak is the final run.
C2_SegmentsAreRuns ==
    HasRow =>
        LET k == Cardinality(RunStarts)
            idxs == [i \in 1..Len(raw_entries) |->
                        WeekIndex(weeks, raw_entries[i].week)]
        IN  /\ TheRow.segments_count = k
            /\ TheRow.reentry_count = k - 1
            /\ TheRow.max_streak_weeks = LongestRun
            /\ _compute_segments(idxs) = <<k, LongestRun, FinalRun>>

\* three runs, the longest of them neither the first nor the last
C2_Witness ==
    /\ HasRow
    /\ TheRow.segments_count = 3
    /\ TheRow.max_streak_weeks = 2
    /\ FinalRun = 1
    /\ RunLenFrom(MinOf(RunStarts)) = 1

\* C3: current_streak_weeks is 0 when the item's last observed week is not the
\* chart's as-of week, and the length of the final run otherwise.
C3_CurrentStreak ==
    HasRow =>
        TheRow.current_streak_weeks = (IF SeenAsOf THEN FinalRun ELSE 0)

\* an item that left the chart after a streak of two weeks
C3_Witness ==
    /\ HasRow
    /\ ~SeenAsOf
    /\ FinalRun = 2
    /\ TheRow.current_streak_weeks = 0

\* the square of the population standard deviation of the consecutive deltas of
\* a rank sequence, from the definition: mean of squares minus square of mean
DeltaVariance(ranks) ==
    LET d == [i \in 1..(Len(ranks) - 1) |-> ranks[i] - ranks[i + 1]]
        n == Len(d)
    IN  Rat(n * SumSeq([i \in 1..n |-> d[i] * d[i]]) - SumSeq(d) * SumSeq(d), n * n)

\* C4 as stated: volatility_4w is null whenever fewer than 3 observations fall
\* in the trailing window of the last 4 observations, and otherwise it is the
\* population standard deviation of the consecutive rank deltas in the window.
C4_AsStated ==
    HasRow =>
        LET w == TrailingRanks(4)
        IN  IF Len(w) < 3 THEN TheRow.volatility_4w = None
            ELSE /\ TheRow.volatility_4w # None
                 /\ RatEq(TheRow.volatility_4w[1], DeltaVariance(w))

\* C4 amended: volatility_4w is null when fewer than 3 observations fall in the
\* trailing window or when the item's last observation is not in the as-of
\* week; otherwise it is the population standard deviation of the consecutive
\* rank deltas in the window.
C4_Volatility ==
    HasRow =>
        LET w == TrailingRanks(4)
        IN  IF Len(w) < 3 \/ ~SeenAsOf THEN TheRow.volatility_4w = None
            ELSE /\ TheRow.volatility_4w # None
                 /\ RatEq(TheRow.volatility_4w[1], DeltaVariance(w))

\* a window of 4 observations with unequal deltas, across an index gap
C4_Witness ==
    /\ HasRow
    /\ SeenAsOf
    /\ Len(TrailingRanks(4)) = 4
    /\ Cardinality(RunStarts) >= 2
    /\ TheRow.volatility_4w # None
    /\ TheRow.volatility_4w[1].num > 0

\* C5: with the last observation not in the as-of week all motion fields are
\* null; otherwise wow_delta = prev_rank - last_rank (null with one
\* observation) and momentum_4w = (oldest rank of the window of the last up to
\* 4 observations - newest rank) / (window size - 1), null with fewer than 2
\* observations; the window ignores index gaps.
C5_MotionFields ==
    HasRow =>
        LET w == TrailingRanks(4)
            n == Len(w)
        IN  IF ~SeenAsOf
            THEN /\ TheRow.last_rank = None
                 /\ TheRow.prev_rank = None
                 /\ TheRow.wow_delta = None
                 /\ TheRow.momentum_4w = None
                 /\ TheRow.volatility_4w = None
            ELSE /\ TheRow.last_rank = Some(w[n])
                 /\ TheRow.prev_rank = (IF n >= 2 THEN Some(w[n - 1]) ELSE None)
                 /\ TheRow.wow_delta = (IF n >= 2 THEN Some(w[n - 1] - w[n]) ELSE None)
                 /\ IF n >= 2
                    THEN /\ TheRow.momentum_4w # None
                         /\ RatEq(TheRow.momentum_4w[1], Rat(w[1] - w[n], n - 1))
                    ELSE TheRow.momentum_4w = None

\* motion computed over a window of 4 observations that spans an index gap
C5_Witness ==
    /\ HasRow
    /\ SeenAsOf
    /\ Len(TrailingRanks(4)) = 4
    /\ Cardinality(RunStarts) >= 2
    /\ TheRow.momentum_4w # None
    /\ TheRow.momentum_4w[1].num # 0
    /\ TheRow.wow_delta # None

\* the scenario of the specification: indices [0,1,2,4,5], ranks
\* [50,40,30,20,15], as-of index 5
Scenario ==
    /\ NWeeks = 6
    /\ ObsIdx = {0, 1, 2, 4, 5}
    /\ TrailingRanks(5) = <<50, 40, 30, 20, 15>>

\* C6: weeks_on_chart is the number of observations, age_weeks = (as-of index -
\* first index) + 1, presence_ratio = weeks_on_chart / age_weeks, best_rank the
\* minimum rank, avg_rank the mean, top25_weeks the number of ranks <= 25; the
\* scenario gives 5, 6, 5/6, 15, 31, 2, wow_delta 5 and momentum_4w 25/3.
C6_RowFields ==
    HasRow =>
        LET n == Cardinality(ObsIdx)
            age == (NWeeks - 1) - MinOf(ObsIdx) + 1
            ranks == TrailingRanks(n)
        IN  /\ TheRow.weeks_on_chart = n
            /\ TheRow.age_weeks = age
            /\ RatEq(TheRow.presence_ratio, Rat(n, age))
            /\ TheRow.best_rank = MinOf({RankAt(i) : i \in ObsIdx})
            /\ RatEq(TheRow.avg_rank, Rat(SumSeq(ranks), n))
            /\ TheRow.top25_weeks = Cardinality({i \in ObsIdx : RankAt(i) <= 25})
            /\ Scenario =>
                   /\ TheRow.weeks_on_chart = 5
                   /\ TheRow.age_weeks = 6
                   /\ RatEq(TheRow.presence_ratio, Rat(5, 6))
                   /\ TheRow.best_rank = 15
                   /\ RatEq(TheRow.avg_rank, Rat(31, 1))
                   /\ TheRow.top25_weeks = 2
                   /\ TheRow.wow_delta = Some(5)
                   /\ RatEq(TheRow.momentum_4w[1], Rat(25, 3))

\* the row of the scenario
C6_Witness == HasRow /\ Scenario

---------------------------------------------------------------------------
\* The classifier applied to one metric record.

\* the metric records handed to bucket_row: the fields it reads, around its
\* thresholds; standard deviations by their squares
MetricRecords ==
    [durability_score : {DUR_HIGH - 1, DUR_HIGH, (75 * Scale) \div 100},
     max_streak_weeks : {STREAK_LONG - 1, STREAK_LONG, 5},
     volatility_4w    : {None, Some(Rat(1, 4)), Some(Rat(1, 1)), Some(Rat(9, 1)),
                         Some(Rat(16, 1))},
     rank_stddev      : {None, Some(Rat(100, 1)), Some(Rat(101, 1)), Some(Rat(400, 1))},
     age_weeks        : {None, Some(AGE_SHORT), Some(AGE_SHORT + 1)},
     momentum_4w      : {None, Some(Rat(-1, 3)), Some(Rat(0, 1)), Some(Rat(2, 1))},
     wow_delta        : {None, Some(WOW_FALL), Some(-2), Some(3)},
     last_rank        : {None, Some(7)},
     weeks_on_chart   : {2, 3, AGE_LONG},
     best_rank        : {PEAK_STRONG, PEAK_STRONG + 1}]

InitBucket ==
    /\ weeks = <<>>
    /\ raw_entries = <<>>
    /\ row = None
    /\ rec \in MetricRecords
    /\ label = None
    /\ rows = <<>>
    /\ board = None
    /\ html = None
    /\ parsed = None
    /\ IdleStore

\* bucket_row(rec)
Classify ==
    /\ label = None
    /\ label' = Some(bucket_row(rec))
    /\ UNCHANGED <<weeks, raw_entries, row, rec, rows, board, parseVars, storeVars, runVars>>

NextBucket == Classify

SpecBucket == InitBucket /\ [][NextBucket]_vars

\* the label conditions as the specification states them, on the record
IsLe(opt, c) == opt # None /\ opt[1].num <= c * c * opt[1].den

IsGe(opt, c) == opt # None /\ opt[1].num >= c * c * opt[1].den

AnchorHolds ==
    /\ rec.durability_score * 100 >= 70 * Scale
    /\ rec.max_streak_weeks >= 4
    /\ (IsLe(rec.volatility_4w, 1) \/ IsLe(rec.rank_stddev, 10))

SpikeHolds ==
    /\ rec.weeks_on_chart <= 2
    /\ rec.best_rank <= 15
    /\ (IsGe(rec.volatility_4w, 4) \/ IsGe(rec.rank_stddev, 20))

ClimberHolds ==
    /\ rec.age_weeks \in {Some(a) : a \in 0..3}
    /\ \/ (rec.momentum_4w # None /\ rec.momentum_4w[1].num >= 2 * rec.momentum_4w[1].den)
       \/ rec.wow_delta \in {Some(d) : d \in 3..500}
    /\ rec.last_rank # None

FaderHolds ==
    /\ rec.weeks_on_chart >= 8
    /\ \/ rec.wow_delta \in {Some(d) : d \in -500..-3}
       \/ (rec.momentum_4w # None /\ rec.momentum_4w[1].num < 0)

\* the labels whose condition holds, by precedence: 1 Anchor .. 4 Fader
Precedence == <<"Anchor", "Spike", "Climber", "Fader">>

Matching ==
    {i \in 1..4 : <<AnchorHolds, SpikeHolds, ClimberHolds, FaderHolds>>[i]}

\* C7: bucket_row returns the first of Anchor, Spike, Climber, Fader whose
\* condition holds and the no-label value when none holds; a record that
\* satisfies two conditions gets the earlier label.
C7_FirstMatchWins ==
    label # None =>
        /\ (Matching = {}) => label[1] = NoLabel
        /\ (Matching # {}) => label[1] = Precedence[MinOf(Matching)]
        /\ (Matching = {1, 4}) => label[1] = "Anchor"
        /\ (Matching = {2, 3}) => label[1] = "Spike"

\* a record that satisfies the conditions of Spike and of Climber, and no other
C7_Witness ==
    /\ label = Some("Spike")
    /\ Matching = {2, 3}

\* C8: a record is Anchor exactly when durability_score >= 0.70 and
\* max_streak_weeks >= 4 and (volatility_4w <= 1.0 or rank_stddev <= 10),
\* thresholds inclusive, a null never satisfying its comparison; so
\* durability_score 0.75, max_streak_weeks 5, volatility_4w 0.5 is Anchor.
C8_AnchorExactly ==
    label # None =>
        /\ (label[1] = "Anchor") <=> AnchorHolds
        /\ (/\ rec.durability_score = (75 * Scale) \div 100
            /\ rec.max_streak_weeks = 5
            /\ rec.volatility_4w = Some(Rat(1, 4))) => label[1] = "Anchor"

\* Anchor on the thresholds themselves, rank_stddev unknown
C8_Witness ==
    /\ label = Some("Anchor")
    /\ rec.durability_score = DUR_HIGH
    /\ rec.max_streak_weeks = 4
    /\ rec.volatility_4w = Some(Rat(1, 1))
    /\ rec.rank_stddev = None

---------------------------------------------------------------------------
\* The aggregator applied to the rows of one report run.

TrackIds == {"t1", "t2"}

\* per-chart stats of an item on one chart: an Anchor, an unlabelled row and a
\* Climber that ties with the Anchor on durability_score
Profiles ==
    {[durability_score |-> (80 * Scale) \div 100, max_streak_weeks |-> 5,
      volatility_4w |-> Some(Rat(1, 4)), rank_stddev |-> Some(Rat(9, 1)),
      age_weeks |-> Some(6), momentum_4w |-> Some(Rat(0, 1)), wow_delta |-> Some(0),
      last_rank |-> Some(3), weeks_on_chart |-> 6, best_rank |-> 2,
      reentry_count |-> 0],
     [durability_score |-> (60 * Scale) \div 100, max_streak_weeks |-> 2,
      volatility_4w |-> None, rank_stddev |-> Some(Rat(225, 1)),
      age_weeks |-> Some(5), momentum_4w |-> None, wow_delta |-> None,
      last_rank |-> None, weeks_on_chart |-> 3, best_rank |-> 40,
      reentry_count |-> 1],
     [durability_score |-> (80 * Scale) \div 100, max_streak_weeks |-> 3,
      volatility_4w |-> Some(Rat(4, 1)), rank_stddev |-> Some(Rat(144, 1)),
      age_weeks |-> Some(3), momentum_4w |-> Some(Rat(5, 1)), wow_delta |-> Some(4),
      last_rank |-> Some(9), weeks_on_chart |-> 3, best_rank |-> 9,
      reentry_count |-> 0]}

\* TRACKED_CHARTS alternates top100 and hype charts
ChartType(c) == IF c % 2 = 1 THEN "top100" ELSE "hype"

\* the number of rows of track t
RowCount(rs, t) == Cardinality({i \in 1..Len(rs) : rs[i].track_id = t})

\* One more row comes back from _fetch_cross_chart_rows: item t on the next
\* chart it is not yet listed on, with per-chart stats p.
FetchRow(t, p) ==
    /\ board = None
    /\ Len(rows) < MaxRows
    /\ LET c == RowCount(rows, t) + 1
       IN  rows' = Append(rows,
                [f \in {"chart_id", "chart_type", "track_id"} \cup DOMAIN p |->
                    IF f = "chart_id" THEN c
                    ELSE IF f = "chart_type" THEN ChartType(c)
                    ELSE IF f = "track_id" THEN t
                    ELSE p[f]])
    /\ UNCHANGED <<weeks, raw_entries, row, rec, label, board, parseVars, storeVars, runVars>>

\* aggregate_tracks = _aggregate_across_charts(aggregate_rows)
Aggregate ==
    /\ board = None
    /\ board' = Some(_aggregate_across_charts(rows))
    /\ UNCHANGED <<weeks, raw_entries, row, rec, label, rows, parseVars, storeVars, runVars>>

NextAggregate ==
    \/ \E t \in TrackIds, p \in Profiles : FetchRow(t, p)
    \/ Aggregate

SpecAggregate == Init /\ [][NextAggregate]_vars

---------------------------------------------------------------------------
\* Properties of the aggregator (specification SpecAggregate).

\* the positions in rows of the rows of item t
RowsOfTrack(t) == {i \in 1..Len(rows) : rows[i].track_id = t}

RECURSIVE ScoreSum(_)
ScoreSum(S) ==
    IF S = {} THEN 0
    ELSE LET i == CHOOSE x \in S : TRUE
         IN  rows[i].durability_score + ScoreSum(S \ {i})

\* the items with rows on at least n charts
OnCharts(n) == {t \in TrackIds : Cardinality(RowsOfTrack(t)) >= n}

\* what the aggregator computed for the items of the input: the leaderboard's
\* entries, and the second loop's record of every item
Aggregated ==
    {board[1][i] : i \in 1..Len(board[1])} \cup {TrackAggregate(rows, t) : t \in OnCharts(1)}

\* C9: chart_count is the number of per-chart rows of the item, avg_durability
\* the mean of their scores, multiplier = min(1 + 0.15 * (chart_count - 1),
\* 1.60), aggregate_score = avg_durability * multiplier; scores 0.8 and 0.6 on
\* two charts give 0.7, 1.15 and 0.805; the multiplier stops growing at 5 charts.
C9_AggregateScore ==
    board # None =>
        \A a \in Aggregated :
            LET mine == RowsOfTrack(a.track_id)
                n == Cardinality(mine)
            IN  /\ a.chart_count = n
                /\ a.avg_durability = ScoreSum(mine) \div n
                /\ a.aggregate_multiplier * 100 = MinOf({100 + 15 * (n - 1), 160}) * Scale
                /\ a.aggregate_score = (a.avg_durability * a.aggregate_multiplier) \div Scale
                /\ (n >= 5) => a.aggregate_multiplier * 100 = 160 * Scale
                /\ (n = 2 /\ ScoreSum(mine) * 100 = 140 * Scale
                        /\ \E i \in mine : rows[i].durability_score * 100 = 80 * Scale) =>
                       /\ a.avg_durability * 100 = 70 * Scale
                       /\ a.aggregate_multiplier * 100 = 115 * Scale
                       /\ a.aggregate_score * 1000 = 805 * Scale

\* an item on 6 charts, listed with the capped multiplier
C9_Witness ==
    /\ board # None
    /\ \E i \in 1..Len(board[1]) :
           /\ board[1][i].chart_count = 6
           /\ board[1][i].aggregate_multiplier * 100 = 160 * Scale

\* the scenario: an item with scores 0.8 and 0.6 on two charts, listed
C9_ScenarioReached ==
    /\ board # None
    /\ \E i \in 1..Len(board[1]) :
           /\ board[1][i].chart_count = 2
           /\ board[1][i].aggregate_score * 1000 = 805 * Scale

\* C10: the leaderboard holds exactly the items with rows on at least 2 charts,
\* each once and none with chart_count 1, by aggregate_score non-increasing.
C10_Leaderboard ==
    board # None =>
        LET b == board[1]
        IN  /\ {b[i].track_id : i \in 1..Len(b)} = OnCharts(2)
            /\ Len(b) = Cardinality(OnCharts(2))
            /\ \A i \in 1..Len(b) : b[i].chart_count >= 2
            /\ \A i, j \in 1..Len(b) :
                   i < j => b[i].aggregate_score >= b[j].aggregate_score

\* two listed items, the one that came second in the input ranked first
C10_Witness ==
    /\ board # None
    /\ Len(board[1]) = 2
    /\ board[1][1].track_id # rows[1].track_id
    /\ board[1][1].aggregate_score > board[1][2].aggregate_score

\* the positions in rows of the rows of item t with its highest durability_score
TopRows(t) ==
    {i \in RowsOfTrack(t) :
        \A j \in RowsOfTrack(t) : rows[j].durability_score <= rows[i].durability_score}

\* C11: each leaderboard item's label is the bucket_row label of the item's
\* per-chart row with the highest durability_score, and of the first such row
\* of the input when several charts tie for the highest score.
C11_PrimaryLabel ==
    board # None =>
        \A a \in Aggregated :
            a.bucket = bucket_row(rows[MinOf(TopRows(a.track_id))])

\* a listed item whose two highest-scoring rows tie and carry different
\* labels, the Climber row first in the input
C11_Witness ==
    /\ board # None
    /\ \E k \in 1..Len(board[1]) :
           LET top == TopRows(board[1][k].track_id)
           IN  /\ Cardinality(top) >= 2
               /\ bucket_row(rows[MinOf(top)]) = "Climber"
               /\ \E j \in top : bucket_row(rows[j]) = "Anchor"
               /\ board[1][k].bucket = "Climber"

---------------------------------------------------------------------------
\* The extractor applied to one page payload.

\* most elements of a payload's document
MaxDom == 2

\* an array of n items: item i has id ((i - 1) % period) + 1, is no track-like
\* dict when i % junk_mod = junk_rem, and has no link when i % bare_mod = 0
\* (a modulus of 0 switches the exception off)
Items(n, period, junk_mod, junk_rem, bare_mod) ==
    [i \in 1..n |->
        [like |-> ~(junk_mod # 0 /\ i % junk_mod = junk_rem),
         id   |-> ((i - 1) % period) + 1,
         href |-> IF bare_mod # 0 /\ i % bare_mod = 0 THEN None
                  ELSE Some(((i - 1) % period) + 1)]]

\* 60 track-like dicts with distinct identities
Chart60 == Items(60, 60, 0, 0, 0)

\* more tracks than the ceiling
Chart120 == Items(120, 120, 0, 0, 0)

\* 40 tracks, the identities 1..15 twice
ChartDup == Items(40, 25, 0, 0, 0)

\* 40 items, every second one no track: density 0.50
ChartNoisy == Items(40, 40, 2, 0, 0)

\* 43 items, 21 of them tracks: density below 0.50
ChartSparse == Items(43, 43, 2, 1, 0)

\* 30 tracks, every third without a link
ChartBare == Items(30, 30, 0, 0, 3)

\* 19 tracks: too short
ChartShort == Items(19, 19, 0, 0, 0)

\* 20 tracks, none with a link
ChartNoLinks == Items(20, 20, 0, 0, 1)

\* 30 items, 15 of them tracks: density 0.50, fewer than 20 tracks
ChartThin == Items(30, 30, 2, 0, 0)

\* 501 tracks: more than twice the scoring window
ChartLong == Items(501, 501, 0, 0, 0)

InPage(items) == [in_page |-> TRUE, items |-> items]

Outside(items) == [in_page |-> FALSE, items |-> items]

\* the arrays of a structured data tree, in pre-order
ListConfigs ==
    {<<>>,
     <<InPage(Chart60)>>,
     <<InPage(ChartDup)>>,
     <<InPage(ChartBare)>>,
     <<InPage(ChartShort)>>,
     <<InPage(ChartSparse)>>,
     <<InPage(ChartNoLinks)>>,
     <<Outside(Chart120)>>,
     <<InPage(ChartNoisy), Outside(Chart60)>>,
     <<InPage(Chart60), Outside(Chart120)>>,
     <<InPage(Chart60), InPage(Chart120)>>,
     <<InPage(ChartThin)>>,
     <<InPage(ChartLong)>>,
     <<InPage(ChartNoLinks), InPage(ChartNoisy)>>}

\* the is_included_in_hype values of the dehydrated queries
QueryConfigs ==
    {<<>>, <<Some(FALSE)>>, <<Some(TRUE)>>, <<None, Some(FALSE)>>,
     <<Some(FALSE), Some(TRUE)>>, <<Some(TRUE), Some(FALSE)>>}

\* no structured data, structured data that is no object, and objects: any
\* of the array configurations without queries, and any of the query
\* configurations with no array or with the array of 60 tracks
NextDatas ==
    {None}
    \cup {Some([is_object |-> FALSE, queries |-> <<>>, lists |-> <<>>])}
    \cup {Some([is_object |-> TRUE, queries |-> <<>>, lists |-> l]) : l \in ListConfigs}
    \cup {Some([is_object |-> TRUE, queries |-> q, lists |-> l]) :
             q \in QueryConfigs, l \in {<<>>, <<InPage(Chart60)>>}}

\* elements of a document: ranked nodes with a track link, a node whose
\* position is no integer, a node without a link, plain links in and out of
\* <main>, and a link whose href has no numeric id
DomElements ==
    {[ec |-> Some(Some(2)), a |-> Some(7), main |-> TRUE],
     [ec |-> Some(Some(1)), a |-> Some(8), main |-> TRUE],
     [ec |-> Some(None),    a |-> Some(7), main |-> FALSE],
     [ec |-> Some(Some(1)), a |-> None,    main |-> FALSE],
     [ec |-> None,          a |-> Some(9), main |-> FALSE],
     [ec |-> None,          a |-> Some(0), main |-> TRUE]}

Doms == UNION {[1..n -> DomElements] : n \in 0..MaxDom}

Payloads == [hype_true : BOOLEAN, next_data : NextDatas, dom : Doms]

InitParse ==
    /\ weeks = <<>>
    /\ raw_entries = <<>>
    /\ row = None
    /\ rec = None
    /\ label = None
    /\ rows = <<>>
    /\ board = None
    /\ html \in Payloads
    /\ parsed = None
    /\ IdleStore

\* entries = parse_chart(html)
ParseChart ==
    /\ parsed = None
    /\ parsed' = Some(parse_chart(html))
    /\ UNCHANGED <<weeks, raw_entries, row, rec, label, rows, board, html, storeVars, runVars>>

NextParse == ParseChart

SpecParse == InitParse /\ [][NextParse]_vars

---------------------------------------------------------------------------
\* Properties of the extractor (specification SpecParse).

\* the three strategies on the payload, in the order of the cascade
Structured == _parse_chart_from_next_data_order(html, DEFAULT_LIMIT)

Annotated == _parse_chart_from_analytics_dom(html.dom)

LinkOrder == _parse_chart_from_dom_order(html.dom, DEFAULT_LIMIT)

\* the first non-empty strategy result, <<>> when all three are empty
FirstNonEmpty ==
    IF Structured # <<>> THEN Structured
    ELSE IF Annotated # <<>> THEN Annotated
    ELSE LinkOrder

\* the payload's structured data carries the flag: some query's data has
\* is_included_in_hype with a false value
Flagged ==
    /\ html.next_data # None
    /\ \E i \in 1..Len(html.next_data[1].queries) :
           html.next_data[1].queries[i] = Some(FALSE)

Raised == parsed # None /\ parsed[1].outcome # "return"

Returned(entries) == parsed = Some(Return(entries))

\* C12: parse_chart returns the result of the first of structured-payload,
\* attribute-annotated and link-order extraction that yields a non-empty list,
\* and never a later strategy's result when an earlier one is non-empty.
C12_AsStated ==
    (parsed # None /\ ~UnsupportedHype(html) /\ FirstNonEmpty # <<>>) =>
        Returned(FirstNonEmpty)

\* what the cascade does when the structured data, if any, is an object
C12_CascadeOnObjectData ==
    (/\ parsed # None
     /\ ~UnsupportedHype(html)
     /\ FirstNonEmpty # <<>>
     /\ (html.next_data = None \/ html.next_data[1].is_object)) =>
        Returned(FirstNonEmpty)

\* the first query that carries is_included_in_hype has it false
FirstFlagFalse ==
    /\ html.next_data # None
    /\ LET q == html.next_data[1].queries
       IN  \E i \in 1..Len(q) : q[i] = Some(FALSE) /\ \A j \in 1..(i - 1) : q[j] = None

C14_AsStated ==
    parsed # None =>
        /\ Raised <=> (FirstNonEmpty = <<>> /\ ~UnsupportedHype(html))
        /\ Returned(<<>>) => UnsupportedHype(html)

\* the half of C14 that holds: an empty list is returned only by the early
\* return, and no strategy result is lost to a ValueError
C14_EmptyOnlyWhenUnsupported ==
    parsed # None =>
        /\ Returned(<<>>) <=> UnsupportedHype(html)
        /\ (parsed[1].outcome = "ValueError") =>
               (FirstNonEmpty = <<>> /\ ~UnsupportedHype(html))

\* an item the emit loop can name, and the identity it gets
Emittable(item) ==
    /\ item.like
    /\ item.href # None
    /\ (item.href[1] # 0 \/ item.id # 0)

Identity(item) == IF item.href[1] # 0 THEN item.href[1] ELSE item.id

\* the positions of array win where an identity occurs for the first time
FirstOccurrences(win) ==
    {i \in 1..Len(win) :
        /\ Emittable(win[i])
        /\ \A j \in 1..(i - 1) : Emittable(win[j]) => Identity(win[j]) # Identity(win[i])}

\* C15: structured extraction emits the identities of the winning array in
\* array order, each once at its first occurrence, ranked 1..n by output
\* position with n at most the ceiling; one array of 60 item-like dicts with
\* distinct identities yields exactly 60 entries ranked 1..60 in array order.
C15_StructuredOrder ==
    (parsed # None /\ html.next_data # None /\ html.next_data[1].is_object) =>
        LET win == BestList(html.next_data[1])
            first == FirstOccurrences(win)
            out == Structured
            n == Len(out)
            \* where in win the k-th output record comes from
            from == [k \in 1..n |->
                        {p \in first : Identity(win[p]) = out[k].track_id}]
        IN  /\ n = MinOf({Cardinality(first), DEFAULT_LIMIT})
            /\ \A k \in 1..n : out[k].rank = k /\ Cardinality(from[k]) = 1
            /\ \A k \in 1..(n - 1) : MinOf(from[k]) < MinOf(from[k + 1])
            /\ n > 0 => Cardinality({p \in first : p <= MinOf(from[n])}) = n
            /\ (/\ Len(html.next_data[1].lists) = 1
                /\ Len(win) = 60
                /\ Cardinality(first) = 60) =>
                   /\ n = 60
                   /\ \A k \in 1..60 : out[k] = [track_id |-> Identity(win[k]), rank |-> k]

\* a returned structured result that dropped repeated identities
C15_Witness ==
    /\ parsed # None
    /\ parsed[1].outcome = "return"
    /\ html.next_data # None
    /\ LET win == BestList(html.next_data[1])
           out == parsed[1].entries
       IN  /\ out = Structured
           /\ out # <<>>
           /\ Len(out) < Len(win)
           /\ \E i \in 1..Len(win) :
                  Emittable(win[i]) /\ i \notin FirstOccurrences(win)

\* the scenario: one array of 60 item-like dicts, returned as 60 entries
C15_ScenarioReached ==
    /\ parsed # None
    /\ html.next_data # None
    /\ html.next_data[1].lists = <<InPage(Chart60)>>
    /\ Len(parsed[1].entries) = 60

\* the number of item-like elements of the array lst
LikeCount(lst) == Cardinality({i \in 1..Len(lst) : lst[i].like})

\* the number of item-like elements among the first 250 of lst
WindowCount(lst) == Cardinality({i \in 1..Len(lst) : i <= 250 /\ lst[i].like})

\* the arrays of the payload in the order they are scanned when all are
\* scanned: those under the page properties, then every array of the tree
ScanOrder(nd) ==
    LET Page(l) == l.in_page
        seq == SelectSeq(nd.lists, Page) \o nd.lists
    IN  [i \in 1..Len(seq) |-> seq[i].items]

\* the arrays under the page properties
PageOrder(nd) ==
    LET Page(l) == l.in_page
        seq == SelectSeq(nd.lists, Page)
    IN  [i \in 1..Len(seq) |-> seq[i].items]

\* the first array of seq among those that survive (by the test Ok) and are
\* beaten by no other survivor on (Count, length); <<>> without survivors
Winner(seq, Ok(_), Count(_)) ==
    LET alive == {i \in 1..Len(seq) : Ok(seq[i])}
        Beats(a, b) == \/ Count(a) > Count(b)
                       \/ (Count(a) = Count(b) /\ Len(a) > Len(b))
        top == {i \in alive : \A j \in alive : ~Beats(seq[j], seq[i])}
    IN  IF alive = {} THEN <<>> ELSE seq[MinOf(top)]

\* an array survives as the claim has it: length and density
SurvivesAsStated(lst) == Len(lst) >= 20 /\ 2 * LikeCount(lst) >= Len(lst)

\* an array survives: length, 20 item-like elements among its first 250, and
\* that count at least half of its whole length
Survives(lst) ==
    Len(lst) >= 20 /\ WindowCount(lst) >= 20 /\ 2 * WindowCount(lst) >= Len(lst)

\* the payload has structured data that is an object
HasTree == html.next_data # None /\ html.next_data[1].is_object

\* C25 as stated: the selected array is the array of length >= 20 and density
\* >= 0.50 with the highest item-like count, the longer one on a tie.
C25_AsStated ==
    (parsed # None /\ HasTree) =>
        LET nd == html.next_data[1]
        IN  BestList(nd) = Winner(ScanOrder(nd), SurvivesAsStated, LikeCount)

\* the best array under the page properties has 50 item-like elements
PageIsGoodEnough(nd) ==
    LET best == Winner(PageOrder(nd), Survives, WindowCount)
    IN  best # <<>> /\ WindowCount(best) >= 50

\* C25: the selected array is, among the arrays scanned, the first one of
\* length >= 20 with at least 20 item-like elements among its first 250 and
\* that count at least half its length, which no other such array beats on
\* that count or, on a tie, on length; the arrays scanned are those under the
\* page properties and, unless the best of them has 50 item-like elements,
\* every array of the tree.  No array is selected when none qualifies.
C25_SelectedArray ==
    HasTree =>
        LET nd == html.next_data[1]
        IN  BestList(nd) =
                Winner(IF PageIsGoodEnough(nd) THEN PageOrder(nd) ELSE ScanOrder(nd),
                       Survives, WindowCount)

\* payloads were parsed in which an array of density 0.50 with 15 item-like
\* elements is not selected, and in which the longer of two arrays with 20
\* item-like elements is
C25_Witness ==
    /\ parsed # None
    /\ HasTree
    /\ html.next_data[1].lists = <<InPage(ChartNoLinks), InPage(ChartNoisy)>>
    /\ BestList(html.next_data[1]) = ChartNoisy
    /\ BestList([html.next_data[1] EXCEPT !.lists = <<InPage(ChartThin)>>]) = <<>>

\* the first array in scan order that qualifies with 50 item-like elements
FirstGoodEnough(nd) ==
    LET seq == ScanOrder(nd)
        good == {i \in 1..Len(seq) : Survives(seq[i]) /\ WindowCount(seq[i]) >= 50}
    IN  IF good = {} THEN <<>> ELSE seq[MinOf(good)]

\* C26 as stated: once an array with 50 item-like elements is met, no array
\* that comes later in the scan is selected.
C26_AsStated ==
    (parsed # None /\ HasTree) =>
        LET nd == html.next_data[1]
        IN  FirstGoodEnough(nd) # <<>> => BestList(nd) = FirstGoodEnough(nd)

\* C26: the scan stops between the two roots: when the best array under the
\* page properties has 50 item-like elements, the selected array is that one
\* and no array outside the page properties is selected, whatever its
\* count; every array under the page properties is scored before the stop.
C26_StopBetweenRoots ==
    HasTree =>
        LET nd == html.next_data[1]
        IN  PageIsGoodEnough(nd) =>
                /\ BestList(nd) = Winner(PageOrder(nd), Survives, WindowCount)
                /\ \E i \in 1..Len(nd.lists) :
                       nd.lists[i].in_page /\ nd.lists[i].items = BestList(nd)

\* a payload with 60 tracks under the page properties and 120 outside was
\* parsed into the 60
C26_Witness ==
    /\ parsed # None
    /\ HasTree
    /\ html.next_data[1].lists = <<InPage(Chart60), Outside(Chart120)>>
    /\ BestList(html.next_data[1]) = Chart60
    /\ ~UnsupportedHype(html) => Len(parsed[1].entries) = 60

\* C27: a non-empty list returned by parse_chart has pairwise distinct item
\* identities and pairwise distinct positive ranks.
C27_AsStated ==
    (parsed # None /\ parsed[1].outcome = "return") =>
        LET out == parsed[1].entries
        IN  /\ \A i \in 1..Len(out) : out[i].rank > 0
            /\ \A i, j \in 1..Len(out) :
                  i # j => (out[i].track_id # out[j].track_id /\ out[i].rank # out[j].rank)

---------------------------------------------------------------------------
\* time_utils.py, db.py: week dates and the store.  A date is a day number,
\* day 0 a Monday; a chart is its position in TRACKED_CHARTS.  A store is a
\* record of the tables charts, snapshots and entries; the tracks table,
\* which nothing here reads, is left out.

\* week_bucket(d) = d - timedelta(days=d.weekday())
week_bucket(d) == d - (d % 7)

\* f"{chart_id}:{snapshot_date}"
_build_snapshot_id(chart_id, snapshot_date) == <<chart_id, snapshot_date>>

\* what a call into the store ends with
Done(store) == [ok |-> TRUE, store |-> store]

Failed(store) == [ok |-> FALSE, store |-> store]

\* upsert_chart: INSERT ... ON CONFLICT(id) DO UPDATE
upsert_chart(store, chart_id) ==
    Done([store EXCEPT !.charts = @ \cup {chart_id}])

\* the parameters of upsert_snapshot besides conn
UpsertSnapshotParams == {"chart_id", "snapshot_date", "source_url", "fetched_at"}

\* upsert_snapshot called with the keywords kw: a TypeError when it has no
\* such parameter, else INSERT ... ON CONFLICT(chart_id, snapshot_date) DO
\* UPDATE of fetched_at and source_url
upsert_snapshot(store, kw, chart_id, snapshot_date) ==
    IF ~(kw \subseteq UpsertSnapshotParams) THEN Failed(store)
    ELSE IF \E s \in store.snapshots :
                s.chart_id = chart_id /\ s.snapshot_date = snapshot_date
    THEN Done(store)
    ELSE Done([store EXCEPT !.snapshots = @ \cup
                  {[id |-> _build_snapshot_id(chart_id, snapshot_date),
                    chart_id |-> chart_id,
                    snapshot_date |-> snapshot_date]}])

\* insert_entry: ValueError for rank <= 0; INSERT ... ON CONFLICT(snapshot_id,
\* track_id) DO UPDATE SET rank, an IntegrityError when another entry of the
\* snapshot has the rank
insert_entry(store, snapshot_id, track_id, rank) ==
    LET others == {e \in store.entries :
                      ~(e.snapshot_id = snapshot_id /\ e.track_id = track_id)}
    IN  IF rank <= 0 THEN Failed(store)
        ELSE IF \E e \in others : e.snapshot_id = snapshot_id /\ e.rank = rank
        THEN Failed(store)
        ELSE Done([store EXCEPT !.entries = others \cup
                      {[snapshot_id |-> snapshot_id,
                        track_id |-> track_id,
                        rank |-> rank]}])

\* a rollback that keeps what the transaction wrote
Rollback_Keep(saved, working) == working

\* conn.rollback(): the store as it was at BEGIN
Rollback(saved, working) == saved

---------------------------------------------------------------------------
\* ingest.py: one run of run_ingestion over the tracked charts.

\* the number of tracked charts
MaxCharts == 2

\* most runs of run_ingestion or run_compute
MaxRuns == 2

\* attempts of fetch_chart_html_with_retry
FETCH_ATTEMPTS == 3

\* the keywords _ingest_single_chart passes to upsert_snapshot
IngestSnapshotKeywords ==
    {"chart_id", "snapshot_date", "source_url", "fetched_at",
     "status", "error", "html_bytes"}

\* the loop "for entry in entries: upsert_track(...); insert_entry(...)"
RECURSIVE InsertEntries(_, _, _)
InsertEntries(store, snapshot_id, es) ==
    IF es = <<>> THEN Done(store)
    ELSE LET r == insert_entry(store, snapshot_id, es[1].track_id, es[1].rank)
         IN  IF ~r.ok THEN r ELSE InsertEntries(r.store, snapshot_id, Tail(es))

\* the transaction that records a failed snapshot: BEGIN, upsert_chart,
\* upsert_snapshot(status="failed"), commit; rollback on an exception.
\* commit_fails: the commit raises.
RecordFailed(store, chart_id, snap, commit_fails) ==
    LET c == upsert_chart(store, chart_id)
        s == upsert_snapshot(c.store, IngestSnapshotKeywords, chart_id, snap)
    IN  IF ~s.ok THEN Failed(Rollback(store, s.store))
        ELSE IF commit_fails THEN Failed(Rollback(store, s.store))
        ELSE Done(s.store)

\* the transaction that writes a snapshot with its entries: BEGIN,
\* upsert_chart, upsert_snapshot(status="ok"), DELETE of the snapshot's
\* entries, the insert loop, commit; rollback on an exception
RecordEntries(store, chart_id, snap, es, commit_fails) ==
    LET c == upsert_chart(store, chart_id)
        s == upsert_snapshot(c.store, IngestSnapshotKeywords, chart_id, snap)
        snapshot_id == _build_snapshot_id(chart_id, snap)
        d == [s.store EXCEPT !.entries = {e \in @ : e.snapshot_id # snapshot_id}]
        w == InsertEntries(d, snapshot_id, es)
    IN  IF ~s.ok THEN Failed(Rollback(store, s.store))
        ELSE IF ~w.ok THEN Failed(Rollback(store, w.store))
        ELSE IF commit_fails THEN Failed(Rollback(store, w.store))
        ELSE Done(w.store)

\* _ingest_single_chart from the parse on, for the fetched payload h: the
\* outcome of the cycle and the store it leaves.  begin_fails: the BEGIN
\* raises, which the outer handler catches.
IngestFetched(store, chart_id, snap, h, begin_fails, commit_fails) ==
    LET p == parse_chart(h)
        r == IF p.outcome # "return" \/ p.entries = <<>>
             THEN RecordFailed(store, chart_id, snap, commit_fails)
             ELSE RecordEntries(store, chart_id, snap, p.entries, commit_fails)
    IN  [outcome |-> IF p.outcome # "return" THEN "parse_failure"
                     ELSE IF p.entries = <<>> THEN "empty"
                     ELSE "entries",
         stored  |-> ~begin_fails /\ r.ok,
         parsed  |-> p.entries,
         store   |-> IF begin_fails THEN store ELSE r.store]

\* an error of one chart's cycle that ends the loop over the charts
CycleEnd_Abort(j) == [j EXCEPT !.i = MaxCharts + 1, !.attempt = 1]

\* the cycle of a chart ends and the loop of run_ingestion goes on
CycleEnd(j) == [j EXCEPT !.i = @ + 1, !.attempt = 1]

---------------------------------------------------------------------------
\* Runs of run_ingestion over a store.

\* the dates a run is started with: Monday, Wednesday and Sunday of one
\* week, Monday and Tuesday of the next
RunDays == {0, 2, 6, 7, 8}

\* a page whose track links have the ids of the sequence ids
PageWithLinks(ids) ==
    [hype_true |-> FALSE,
     next_data |-> None,
     dom |-> [k \in 1..Len(ids) |-> [ec |-> None, a |-> Some(ids[k]), main |-> TRUE]]]

\* a page without chart data
PageWithoutData == [hype_true |-> FALSE, next_data |-> None, dom |-> <<>>]

\* the page of a hype chart of a genre that has none
PageUnsupportedHype ==
    [hype_true |-> TRUE,
     next_data |-> Some([is_object |-> TRUE, queries |-> <<Some(FALSE)>>, lists |-> <<>>]),
     dom |-> <<>>]

\* the payloads a fetch returns
FetchedPages ==
    {PageWithLinks(<<7, 9>>), PageWithLinks(<<9>>), PageWithoutData, PageUnsupportedHype}

\* the store a run finds: empty, or with the snapshot of chart 1 for week 0
\* and its entries, as written through upsert_snapshot and insert_entry
EmptyStore == [charts |-> {}, snapshots |-> {}, entries |-> {}]

SeededStore ==
    InsertEntries(
        upsert_snapshot(upsert_chart(EmptyStore, 1).store,
                        {"chart_id", "snapshot_date"}, 1, 0).store,
        _build_snapshot_id(1, 0),
        <<[track_id |-> 7, rank |-> 1], [track_id |-> 8, rank |-> 2]>>).store

TheStore ==
    [charts |-> db_charts, snapshots |-> chart_snapshots, entries |-> chart_entries]

\* the store becomes s
StoreBecomes(s) ==
    /\ db_charts' = s.charts
    /\ chart_snapshots' = s.snapshots
    /\ chart_entries' = s.entries

InitIngest ==
    /\ weeks = <<>>
    /\ raw_entries = <<>>
    /\ row = None
    /\ rec = None
    /\ label = None
    /\ rows = <<>>
    /\ board = None
    /\ html = None
    /\ parsed = None
    /\ \E s \in {EmptyStore, SeededStore} :
           /\ db_charts = s.charts
           /\ chart_snapshots = s.snapshots
           /\ chart_entries = s.entries
    /\ durability_metrics = {}
    /\ job = None
    /\ processed = <<>>
    /\ runs = 0

engineVars == <<weeks, raw_entries, row, rec, label, rows, board>>

\* run_ingestion(conn, TRACKED_CHARTS, d) is called
RunIngestion(d) ==
    /\ job = None
    /\ runs < MaxRuns
    /\ job' = Some([snapshot_date |-> week_bucket(d), i |-> 1, attempt |-> 1])
    /\ processed' = <<>>
    /\ runs' = runs + 1
    /\ UNCHANGED <<engineVars, parseVars, storeVars>>

\* the cycle of chart job.i is under way
InCycle == job # None /\ job[1].i <= MaxCharts

\* fetch_chart_html raises a RequestException before the last attempt: sleep
\* and try again
FetchRetry ==
    /\ InCycle
    /\ job[1].attempt < FETCH_ATTEMPTS
    /\ job' = Some([job[1] EXCEPT !.attempt = @ + 1])
    /\ UNCHANGED <<engineVars, parseVars, storeVars, processed, runs>>

\* the record of a finished cycle
Cycle(outcome, fault, parsed_entries, stored) ==
    [chart |-> job[1].i,
     snapshot_date |-> job[1].snapshot_date,
     outcome |-> outcome,
     fault |-> fault,
     replaced |-> \E e \in chart_entries :
                     e.snapshot_id = _build_snapshot_id(job[1].i, job[1].snapshot_date),
     parsed |-> parsed_entries,
     stored |-> stored]

\* fetch_chart_html raises on the last attempt: the error reaches the outer
\* handler of _ingest_single_chart, which logs it and returns
FetchGiveUp ==
    /\ InCycle
    /\ job[1].attempt = FETCH_ATTEMPTS
    /\ processed' = Append(processed, Cycle("fetch_failure", FALSE, <<>>, FALSE))
    /\ job' = Some(CycleEnd(job[1]))
    /\ UNCHANGED <<engineVars, parseVars, storeVars, runs>>

\* the fetch returns the payload h: parse it and write the snapshot
IngestChart(h, begin_fails, commit_fails) ==
    /\ InCycle
    /\ LET r == IngestFetched(TheStore, job[1].i, job[1].snapshot_date, h,
                              begin_fails, commit_fails)
       IN  /\ StoreBecomes(r.store)
           /\ processed' = Append(processed,
                  Cycle(r.outcome, begin_fails \/ commit_fails, r.parsed, r.stored))
    /\ job' = Some(CycleEnd(job[1]))
    /\ UNCHANGED <<engineVars, parseVars, durability_metrics, runs>>

\* the loop over the charts is over: run_ingestion returns
ReturnFromIngestion ==
    /\ job # None
    /\ job[1].i > MaxCharts
    /\ job' = None
    /\ UNCHANGED <<engineVars, parseVars, storeVars, processed, runs>>

\* the steps of a run under way
IngestStep ==
    \/ FetchRetry
    \/ FetchGiveUp
    \/ \E h \in FetchedPages, bf \in BOOLEAN, cf \in BOOLEAN : IngestChart(h, bf, cf)
    \/ ReturnFromIngestion

NextIngest ==
    \/ \E d \in RunDays : RunIngestion(d)
    \/ IngestStep

SpecIngest == InitIngest /\ [][NextIngest]_vars

\* a call under way takes its next step
SpecIngestLive == SpecIngest /\ WF_vars(IngestStep)

---------------------------------------------------------------------------
\* Properties of ingestion (specifications SpecIngest, SpecIngestLive).

\* the cycles of the current or last run that fetched a payload, parsed a
\* non-empty result from it and met no failure of the store's BEGIN or commit
ParsedCycles ==
    {k \in 1..Len(processed) :
        processed[k].outcome = "entries" /\ ~processed[k].fault}

\* the entries stored for the snapshot of cycle k, as (item, rank) pairs
StoredEntries(k) ==
    {<<e.track_id, e.rank>> :
        e \in {x \in chart_entries :
                  x.snapshot_id = <<processed[k].chart, processed[k].snapshot_date>>}}

ParsedEntries(k) ==
    {<<processed[k].parsed[n].track_id, processed[k].parsed[n].rank>> :
        n \in 1..Len(processed[k].parsed)}

C17_AsStated ==
    \A k \in ParsedCycles :
        processed[k].replaced => StoredEntries(k) = ParsedEntries(k)

\* what the runs do to the store: nothing
IngestionStoresNothing ==
    /\ TheStore \in {EmptyStore, SeededStore}
    /\ \A k \in 1..Len(processed) : ~processed[k].stored

\* the charts of the finished cycles are the first tracked charts, in order
InOrder ==
    /\ \A k \in 1..Len(processed) : processed[k].chart = k
    /\ job # None => Len(processed) = job[1].i - 1

\* C20: run_ingestion processes every tracked chart exactly once, in order,
\* and returns, whatever the outcome of each chart's cycle; a chart whose
\* fetch fails writes nothing to the store.
C20_EveryChartOnce ==
    /\ [](InOrder)
    /\ []((job = None /\ runs > 0) => Len(processed) = MaxCharts)
    /\ (job # None) ~> (job = None)
    /\ [][(/\ Len(processed') = Len(processed) + 1
           /\ processed'[Len(processed')].outcome = "fetch_failure")
              => UNCHANGED storeVars]_vars

\* a run that has returned after a fetch failure, a parse failure and a
\* failure to store
C20_Witness ==
    /\ job = None
    /\ runs = MaxRuns
    /\ Len(processed) = MaxCharts
    /\ processed[1].outcome = "fetch_failure"
    /\ processed[2].outcome \in {"parse_failure", "entries"}
    /\ ~processed[2].stored

\* the cycles of the current or last run with the outcome o that met no
\* failure of the store's BEGIN or commit
CyclesWith(o) ==
    {k \in 1..Len(processed) : processed[k].outcome = o /\ ~processed[k].fault}

\* the store has the snapshot of cycle k
SnapshotRecorded(k) ==
    \E s \in chart_snapshots :
        /\ s.chart_id = processed[k].chart
        /\ s.snapshot_date = processed[k].snapshot_date

\* C21: a cycle whose parse raised ends with the snapshot of (chart, week)
\* recorded (as failed), and the next chart is processed.
C21_AsStated ==
    /\ InOrder
    /\ \A k \in CyclesWith("parse_failure") : SnapshotRecorded(k)

\* C22: a cycle whose parse returned the empty list ends with the snapshot of
\* (chart, week) committed (as failed), and the next chart is processed.
C22_AsStated ==
    /\ InOrder
    /\ \A k \in CyclesWith("empty") : SnapshotRecorded(k)

---------------------------------------------------------------------------
\* compute.py: run_compute over the store.  The table durability_metrics is
\* created nowhere in db.py; it is taken from the storage schema of the
\* specification: one row per (chart_id, track_id, as_of_week).

\* a set of numbers as an ascending sequence: ORDER BY
RECURSIVE Ordered(_)
Ordered(S) ==
    IF S = {} THEN <<>> ELSE <<MinOf(S)>> \o Ordered(S \ {MinOf(S)})

\* _resolve_as_of_week(conn, provided)
_resolve_as_of_week(snapshots, provided) ==
    IF provided # None THEN provided
    ELSE IF snapshots = {} THEN None
    ELSE Some(MaxOf({s.snapshot_date : s \in snapshots}))

\* SELECT DISTINCT chart_id FROM chart_snapshots WHERE snapshot_date <= ?
\* ORDER BY chart_id
ChartRows(snapshots, target_week) ==
    Ordered({s.chart_id : s \in {x \in snapshots : x.snapshot_date <= target_week}})

\* the week dates of the snapshots that have entries only
_fetch_chart_weeks_WithEntries(snapshots, chart_id, as_of_week) ==
    Ordered({s.snapshot_date :
                s \in {x \in snapshots :
                          /\ x.chart_id = chart_id
                          /\ x.snapshot_date <= as_of_week
                          /\ \E e \in chart_entries : e.snapshot_id = x.id}})

\* _fetch_chart_weeks(conn, chart_id, as_of_week)
_fetch_chart_weeks(snapshots, chart_id, as_of_week) ==
    Ordered({s.snapshot_date :
                s \in {x \in snapshots :
                          x.chart_id = chart_id /\ x.snapshot_date <= as_of_week}})

\* _fetch_chart_entries(conn, chart_id, as_of_week): the rows (snapshot_date,
\* track_id, rank) of the join
_fetch_chart_entries(store, chart_id, as_of_week) ==
    {[week |-> p[1].snapshot_date, track_id |-> p[2].track_id, rank |-> p[2].rank] :
        p \in {q \in store.snapshots \X store.entries :
                  /\ q[2].snapshot_id = q[1].id
                  /\ q[1].chart_id = chart_id
                  /\ q[1].snapshot_date <= as_of_week}}

\* tracks[track_id]: the TrackWeek records of an item, by snapshot date
TrackWeeks(raw, ws, track_id) ==
    LET Seen(w) == \E r \in raw : r.track_id = track_id /\ r.week = w
        seen == SelectSeq(ws, Seen)
    IN  [i \in 1..Len(seen) |->
            [idx  |-> WeekIndex(ws, seen[i]),
             week |-> seen[i],
             rank |-> (CHOOSE r \in raw : r.track_id = track_id /\ r.week = seen[i]).rank]]

\* rows_to_insert of a chart: _build_metric_row of every item of tracks, with
\* its chart_id
RowsToInsert(raw, ws, chart_id) ==
    LET chart_as_of_week == ws[Len(ws)]
        Row(t) == _build_metric_row(t, TrackWeeks(raw, ws, t), chart_as_of_week,
                                    WeekIndex(ws, chart_as_of_week), Len(ws))
    IN  {[f \in DOMAIN Row(t) \cup {"chart_id"} |->
             IF f = "chart_id" THEN chart_id ELSE Row(t)[f]] :
            t \in {r.track_id : r \in raw}}

\* a DELETE that removes nothing
DeletePrior_None(metrics, chart_id, as_of_week) == metrics

\* DELETE FROM durability_metrics WHERE chart_id = ? AND as_of_week = ?
DeletePrior(metrics, chart_id, as_of_week) ==
    {m \in metrics : ~(m.chart_id = chart_id /\ m.as_of_week = as_of_week)}

\* the key of a metric row
MetricKey(m) == <<m.chart_id, m.track_id, m.as_of_week>>

\* conn.executemany(insert_sql, rows_to_insert): an IntegrityError when a
\* row's key is taken
InsertMetrics(metrics, new_rows) ==
    IF \E m \in metrics, n \in new_rows : MetricKey(m) = MetricKey(n)
    THEN [ok |-> FALSE, metrics |-> metrics]
    ELSE [ok |-> TRUE, metrics |-> metrics \cup new_rows]

\* the steps of a chart's computation at which an exception is raised
ComputeFaults == {"none", "read", "delete", "build", "insert", "commit"}

\* the body of the loop of run_compute for one chart: the outcome and the
\* metric rows it leaves.  Everything from the first read on is inside the
\* try; the handler rolls back and goes on with the next chart.
ComputeOne(store, metrics, chart_id, target_week, fault) ==
    LET ws == _fetch_chart_weeks(store.snapshots, chart_id, target_week)
        chart_as_of_week == ws[Len(ws)]
        raw == _fetch_chart_entries(store, chart_id, chart_as_of_week)
        after_delete == DeletePrior(metrics, chart_id, chart_as_of_week)
        rows_to_insert == RowsToInsert(raw, ws, chart_id)
        inserted == InsertMetrics(after_delete, rows_to_insert)
        Result(outcome, m) ==
            [outcome |-> outcome,
             as_of_week |-> IF ws = <<>> THEN None ELSE Some(chart_as_of_week),
             rows |-> IF outcome = "computed" THEN rows_to_insert ELSE {},
             metrics |-> m]
    IN  IF fault = "read" THEN Result("failed", Rollback(metrics, metrics))
        ELSE IF ws = <<>> \/ raw = {} THEN Result("skipped", metrics)
        ELSE IF fault = "delete" THEN Result("failed", Rollback(metrics, metrics))
        ELSE IF fault = "build" THEN Result("failed", Rollback(metrics, after_delete))
        ELSE IF fault = "insert" \/ ~inserted.ok
        THEN Result("failed", Rollback(metrics, after_delete))
        ELSE IF fault = "commit" THEN Result("failed", Rollback(metrics, inserted.metrics))
        ELSE Result("computed", inserted.metrics)

---------------------------------------------------------------------------
\* Runs of run_compute over a store that is written between the runs.

\* the entries of a snapshot
EntriesA == <<[track_id |-> 7, rank |-> 1], [track_id |-> 8, rank |-> 2]>>

EntriesB == <<[track_id |-> 9, rank |-> 1]>>

\* the snapshots written with entries: chart, week date, entries
StoredEntries_Writes ==
    {<<1, 0, EntriesA>>, <<1, 0, EntriesB>>, <<1, 7, EntriesA>>, <<1, 14, EntriesA>>,
     <<2, 0, EntriesB>>}

\* the snapshots written without entries: chart, week date
StoredSnapshot_Writes == {<<1, 7>>, <<2, 0>>}

\* as_of_week of a call of run_compute: None, or the date given
AsOfWeeks == {None, Some(0)}

\* A snapshot of chart c for week w is written with the entries es in place
\* of the entries it had: upsert_chart, upsert_snapshot, DELETE, insert_entry.
StoreEntries(c, w, es) ==
    /\ job = None
    /\ runs < MaxRuns
    /\ LET s == upsert_snapshot(upsert_chart(TheStore, c).store,
                                {"chart_id", "snapshot_date"}, c, w).store
           d == [s EXCEPT !.entries =
                    {e \in @ : e.snapshot_id # _build_snapshot_id(c, w)}]
       IN  StoreBecomes(InsertEntries(d, _build_snapshot_id(c, w), es).store)
    /\ UNCHANGED <<engineVars, parseVars, durability_metrics, runVars>>

\* A snapshot of chart c for week w is written without entries.
StoreSnapshot(c, w) ==
    /\ job = None
    /\ runs < MaxRuns
    /\ StoreBecomes(upsert_snapshot(upsert_chart(TheStore, c).store,
                                    {"chart_id", "snapshot_date"}, c, w).store)
    /\ UNCHANGED <<engineVars, parseVars, durability_metrics, runVars>>

\* run_compute(conn, as_of_week) is called: the target week and chart_rows
StartCompute(as_of_week) ==
    /\ job = None
    /\ runs < MaxRuns
    /\ LET target_week == _resolve_as_of_week(chart_snapshots, as_of_week)
       IN  job' = Some([target_week |-> target_week,
                        chart_rows |-> IF target_week = None THEN <<>>
                                       ELSE ChartRows(chart_snapshots, target_week[1]),
                        i |-> 1])
    /\ processed' = <<>>
    /\ runs' = runs + 1
    /\ UNCHANGED <<engineVars, parseVars, storeVars>>

\* where in the body of the loop the exception of a fault is raised
FaultStage(fault) ==
    IF fault = "none" THEN "none"
    ELSE IF fault \in {"read", "delete"} THEN "before_delete"
    ELSE "after_delete"

\* the metric rows of chart c
RowsOfChart(metrics, c) == {m \in metrics : m.chart_id = c}

\* the next chart of chart_rows is computed
ComputeChart(fault) ==
    /\ job # None
    /\ job[1].i <= Len(job[1].chart_rows)
    /\ LET c == job[1].chart_rows[job[1].i]
           r == ComputeOne(TheStore, durability_metrics, c, job[1].target_week[1], fault)
       IN  /\ durability_metrics' = r.metrics
           /\ processed' = Append(processed,
                  [chart |-> c,
                   as_of_week |-> r.as_of_week,
                   outcome |-> r.outcome,
                   fault |-> FaultStage(fault),
                   rows |-> r.rows,
                   before |-> RowsOfChart(durability_metrics, c),
                   after |-> RowsOfChart(r.metrics, c)])
    /\ job' = Some([job[1] EXCEPT !.i = @ + 1])
    /\ UNCHANGED <<engineVars, parseVars, db_charts, chart_snapshots, chart_entries, runs>>

\* the loop is over, or there was no snapshot: run_compute returns
ReturnFromCompute ==
    /\ job # None
    /\ job[1].i > Len(job[1].chart_rows)
    /\ job' = None
    /\ UNCHANGED <<engineVars, parseVars, storeVars, processed, runs>>

NextCompute ==
    \/ \E x \in StoredEntries_Writes : StoreEntries(x[1], x[2], x[3])
    \/ \E x \in StoredSnapshot_Writes : StoreSnapshot(x[1], x[2])
    \/ \E a \in AsOfWeeks : StartCompute(a)
    \/ \E fault \in ComputeFaults : ComputeChart(fault)
    \/ ReturnFromCompute

SpecCompute == Init /\ [][NextCompute]_vars

---------------------------------------------------------------------------
\* Properties of run_compute.

\* the snapshots of chart c up to week w
History(c, w) ==
    {s \in chart_snapshots : s.chart_id = c /\ s.snapshot_date <= w}

\* the entries of item t in the history of chart c up to week w, with their
\* week dates
Observations(c, w, t) ==
    {<<s.snapshot_date, e.rank>> :
        <<s, e>> \in {p \in History(c, w) \X chart_entries :
                         p[2].snapshot_id = p[1].id /\ p[2].track_id = t}}

\* the items with at least one entry in the history of chart c up to week w
ItemsOfHistory(c, w) ==
    {e.track_id : e \in {x \in chart_entries :
                            \E s \in History(c, w) : x.snapshot_id = s.id}}

\* the metric rows stored for chart c and as-of week w
MetricRows(c, w) ==
    {m \in durability_metrics : m.chart_id = c /\ m.as_of_week = w}

\* the rows of (c, w) are one per item of the history, each from the history
\* as it is now
RowsMatchHistory(c, w) ==
    /\ {m.track_id : m \in MetricRows(c, w)} = ItemsOfHistory(c, w)
    /\ \A m, n \in MetricRows(c, w) : m.track_id = n.track_id => m = n
    /\ \A m \in MetricRows(c, w) :
          LET obs == Observations(c, w, m.track_id)
          IN  /\ m.weeks_on_chart = Cardinality({o[1] : o \in obs})
              /\ m.first_seen_week = MinOf({o[1] : o \in obs})
              /\ m.last_seen_week = MaxOf({o[1] : o \in obs})
              /\ m.best_rank = MinOf({o[2] : o \in obs})
              /\ m.age_weeks =
                   Cardinality({s.snapshot_date : s \in
                       {x \in History(c, w) : x.snapshot_date >= m.first_seen_week}})

\* chart c has just been computed: a second computation on the store as it
\* is succeeds and leaves the rows of the first
Recomputed(c, t) ==
    LET twice == ComputeOne(TheStore, durability_metrics, c, t, "none")
    IN  twice.outcome = "computed" /\ twice.metrics = durability_metrics

\* C18: while a run of run_compute is under way, every chart it has computed
\* has, for its as-of week, exactly one metric row per item with an entry in
\* the chart's history up to that week, with the values of the history as it
\* is now, so no row of an earlier computation of the pair is left; and
\* computing the chart just handled a second time on the same store leaves
\* the same rows.
C18_RowsReplaced ==
    job # None =>
        /\ \A k \in 1..Len(processed) :
              processed[k].outcome = "computed" =>
                  RowsMatchHistory(processed[k].chart, processed[k].as_of_week[1])
        /\ (processed # <<>> /\ processed[Len(processed)].outcome = "computed") =>
              Recomputed(processed[Len(processed)].chart, job[1].target_week[1])

\* a chart was computed whose earlier rows had an item that its history no
\* longer has
C18_Witness ==
    /\ job # None
    /\ \E k \in 1..Len(processed) :
          /\ processed[k].outcome = "computed"
          /\ \E m \in processed[k].before :
                /\ m.as_of_week = processed[k].as_of_week[1]
                /\ m.track_id \notin {n.track_id : n \in processed[k].after}

\* the charts handled so far are the first of chart_rows, in order
HandledInOrder ==
    job # None =>
        /\ Len(processed) = job[1].i - 1
        /\ \A k \in 1..Len(processed) : processed[k].chart = job[1].chart_rows[k]

\* C19: a chart whose computation failed, at whatever step, has the metric
\* rows it had before; the rows a chart was left with stay as they are for
\* the rest of the run; the charts are handled in the order of chart_rows,
\* each one computed unless its own computation fails, and the run returns
\* only when every chart of chart_rows has been handled.
C19_FailureIsLocal ==
    /\ [](\A k \in 1..Len(processed) :
            /\ processed[k].outcome = "failed" => processed[k].after = processed[k].before
            /\ RowsOfChart(durability_metrics, processed[k].chart) = processed[k].after
            /\ processed[k].fault = "none" => processed[k].outcome # "failed")
    /\ [](HandledInOrder)
    /\ [][(job # None /\ job' = None) => Len(processed) = Len(job[1].chart_rows)]_vars

\* the first chart failed after its DELETE with rows stored for its as-of
\* week, and the second chart was computed after it
C19_Witness ==
    /\ Len(processed) = 2
    /\ processed[1].outcome = "failed"
    /\ processed[1].fault = "after_delete"
    /\ \E m \in processed[1].before : m.as_of_week = processed[1].as_of_week[1]
    /\ processed[2].outcome = "computed"
    /\ processed[2].after # {}

\* the week dates of the snapshots of chart c up to week w
WeekDates(c, w) == {s.snapshot_date : s \in History(c, w)}

\* the observation index of the week date d of chart c: its 0-based position
\* among the chart's week dates
Position(c, w, d) == Cardinality({x \in WeekDates(c, w) : x < d})

\* the week dates up to w at which item t is on chart c
SeenDates(c, w, t) == {o[1] : o \in Observations(c, w, t)}

\* the week dates a to b of chart c are all dates of S
Unbroken(c, w, S, a, b) ==
    \A d \in WeekDates(c, w) : (a <= d /\ d <= b) => d \in S

\* the row m of (c, w) counts weeks, segments and streaks by the positions of
\* the chart's week dates
RowByPosition(c, w, m) ==
    LET S == SeenDates(c, w, m.track_id)
    IN  /\ m.age_weeks = Position(c, w, w) - Position(c, w, MinOf(S)) + 1
        /\ m.segments_count =
             Cardinality({d \in S : \A e \in S : Position(c, w, e) # Position(c, w, d) - 1})
        /\ m.reentry_count = m.segments_count - 1
        /\ m.max_streak_weeks =
             MaxOf({Position(c, w, p[2]) - Position(c, w, p[1]) + 1 :
                       p \in {q \in S \X S : q[1] <= q[2] /\ Unbroken(c, w, S, q[1], q[2])}})
        /\ \A a, b \in S :
              (a < b /\ \A d \in WeekDates(c, w) : ~(a < d /\ d < b)) =>
                  (Unbroken(c, w, S, a, b) /\ m.max_streak_weeks >= 2)

\* the cycles of the run under way that computed rows
Computed == {k \in 1..Len(processed) : job # None /\ processed[k].outcome = "computed"}

\* C24: the rows run_compute builds for a chart count by observation index,
\* the 0-based position of a week date among the chart's snapshot week dates
\* up to the as-of week: age, segments, re-entries and longest streak follow
\* the positions, and an item in two snapshots that are adjacent in date
\* order is in one unbroken segment over them whatever the calendar distance.
C24_IndexByPosition ==
    \A k \in Computed :
        \A m \in processed[k].rows :
            RowByPosition(processed[k].chart, processed[k].as_of_week[1], m)

\* a chart with snapshots two calendar weeks apart and none between was
\* computed, and an item in both has one segment and a streak of two
C24_Witness ==
    \E k \in Computed :
        /\ WeekDates(processed[k].chart, processed[k].as_of_week[1]) = {0, 14}
        /\ \E m \in processed[k].rows :
              /\ SeenDates(processed[k].chart, 14, m.track_id) = {0, 14}
              /\ m.segments_count = 1
              /\ m.max_streak_weeks = 2
              /\ m.age_weeks = 2

\* the week dates of the snapshots of chart c up to w that have no entries
EmptyDates(c, w) ==
    {s.snapshot_date : s \in {x \in History(c, w) :
                                 \A e \in chart_entries : e.snapshot_id # x.id}}

\* the motion fields of the row m are null
MotionNull(m) ==
    /\ m.last_rank = None
    /\ m.prev_rank = None
    /\ m.wow_delta = None
    /\ m.momentum_4w = None
    /\ m.volatility_4w = None

\* C29: a snapshot without entries counts as an observed week of its chart:
\* an item on the chart in the week dates just before and just after it has
\* at least two segments, exactly two (reentry_count 1) when these are its
\* only weeks, its age counts the week, and when the as-of week is such a
\* snapshot every row has current_streak_weeks 0 and null motion fields.
C29_EmptyWeekCounts ==
    \A k \in Computed :
        LET c == processed[k].chart
            w == processed[k].as_of_week[1]
        IN  \A m \in processed[k].rows :
                LET S == SeenDates(c, w, m.track_id)
                IN  /\ w \in EmptyDates(c, w) =>
                          m.current_streak_weeks = 0 /\ MotionNull(m)
                    /\ \A f \in EmptyDates(c, w) :
                          \A a, b \in S :
                              (/\ Position(c, w, a) = Position(c, w, f) - 1
                               /\ Position(c, w, b) = Position(c, w, f) + 1) =>
                                  /\ m.reentry_count >= 1
                                  /\ S = {a, b} => m.reentry_count = 1
                                  /\ m.age_weeks >= Position(c, w, w) - Position(c, w, a) + 1
                                  /\ m.age_weeks >= 3

\* chart 1 was computed as of week 14 with a snapshot without entries at
\* week 7 between two with item 7, which has one re-entry; the rows stored
\* when it was computed as of week 7 have no streak and no motion
C29_Witness ==
    \E k \in Computed :
        /\ processed[k].chart = 1
        /\ processed[k].as_of_week = Some(14)
        /\ EmptyDates(1, 14) = {7}
        /\ \E m \in processed[k].rows :
              m.track_id = 7 /\ m.reentry_count = 1 /\ m.segments_count = 2
        /\ MetricRows(1, 7) # {}
        /\ \A m \in MetricRows(1, 7) : m.current_streak_weeks = 0 /\ MotionNull(m)

---------------------------------------------------------------------------
\* The engine and the classifier together: the row of one item of one chart,
\* built by run_compute from a history in the store and labelled by the
\* report.

\* most snapshot weeks of a labelled history
MaxHistory == 8

\* the ranks of an item before its last entry, and of its last entry
BaseRanks == {1, 75}

LastRanks == {1, 4, 15, 75}

\* the week dates of n snapshots on consecutive Mondays
WeeksOf(n) == [i \in 1..n |-> 7 * (i - 1)]

\* the entries of an item that is on the snapshots of the positions in
\* present, at rank base and on the last of them at rank last
EntriesOf(present, base, last) ==
    LET ps == Ordered(present)
    IN  [k \in 1..Len(ps) |->
            [week |-> 7 * (ps[k] - 1),
             rank |-> IF k = Len(ps) THEN last ELSE base]]

\* the store has n snapshots of the chart and the item is on some of them
InitLabel ==
    /\ \E n \in 1..MaxHistory :
          /\ weeks = WeeksOf(n)
          /\ \E present \in (SUBSET (1..n)) \ {{}}, base \in BaseRanks, last \in LastRanks :
                 raw_entries = EntriesOf(present, base, last)
    /\ row = None
    /\ rec = None
    /\ label = None
    /\ rows = <<>>
    /\ board = None
    /\ html = None
    /\ parsed = None
    /\ IdleStore

\* the dict _fetch_rows_for_chart makes of a metric row read back from the
\* store: a column it reads is a number, or None when it is NULL
_fetch_rows_for_chart(m) ==
    [m EXCEPT !.rank_stddev = Some(@), !.age_weeks = Some(@)]

\* row["bucket"] = bucket_row(row) for the row of the item
BucketRow ==
    /\ row # None
    /\ label = None
    /\ label' = Some(bucket_row(_fetch_rows_for_chart(row[1])))
    /\ UNCHANGED <<weeks, raw_entries, row, rec, rows, board, parseVars, storeVars, runVars>>

NextLabel ==
    \/ RunCompute
    \/ BucketRow

SpecLabel == InitLabel /\ [][NextLabel]_vars

\* the row of the item as the report reads it
Labelled == _fetch_rows_for_chart(row[1])

\* the item is on the snapshot of the as-of week
OnAsOfWeek ==
    \E k \in 1..Len(raw_entries) : raw_entries[k].week = weeks[Len(weeks)]

\* C30: of a row built by the engine and labelled by bucket_row: when the
\* item is not on the as-of week's snapshot, the motion fields are null, the
\* Climber and Fader conditions are false and the label is neither; when the
\* item has one observation, the Anchor and Spike conditions are false and
\* the label is neither; and no two label conditions hold together except
\* Anchor with Fader and Spike with Climber.
C30_LabelsOfEngineRows ==
    label # None =>
        /\ ~OnAsOfWeek =>
              /\ MotionNull(row[1])
              /\ ~ClimberRule(Labelled) /\ ~FaderRule(Labelled)
              /\ label[1] \notin {"Climber", "Fader"}
        /\ Len(raw_entries) = 1 =>
              /\ ~AnchorRule(Labelled) /\ ~SpikeRule(Labelled)
              /\ label[1] \notin {"Anchor", "Spike"}
        /\ ~(AnchorRule(Labelled) /\ SpikeRule(Labelled))
        /\ ~(AnchorRule(Labelled) /\ ClimberRule(Labelled))
        /\ ~(SpikeRule(Labelled) /\ FaderRule(Labelled))
        /\ ~(ClimberRule(Labelled) /\ FaderRule(Labelled))

\* a labelled row of an item on eight snapshots for which the Anchor and the
\* Fader condition hold together
C30_Witness ==
    /\ label = Some("Anchor")
    /\ AnchorRule(Labelled)
    /\ FaderRule(Labelled)
    /\ row[1].weeks_on_chart >= AGE_LONG

====
